---- MODULE Spec2Model ----
(***************************************************************************)
(* The A2A task layer: A2AServer.handle_request dispatching send-task      *)
(* requests to a task manager (AgentTaskManager of level 3, whose agent    *)
(* invocation is a plain synchronous call, and OrchestratorTaskManager of  *)
(* level 4, whose agent invocation is awaited).                            *)
(*                                                                         *)
(* Request handlers are coroutines of one asyncio event loop: exactly one  *)
(* of them runs at a time (variable running) and control changes hands     *)
(* only where a coroutine really suspends: an await of the agent, an       *)
(* acquire of an asyncio.Lock that is taken, or the end of the handler.    *)
(***************************************************************************)
EXTENDS Integers, Sequences, FiniteSets, TLC

\* ---------------------------------------------------------------- bounds
MaxRequests == 2
MaxSessions == 2
MaxSources == 2
MaxCards == 3

Handlers == 1..MaxRequests
Sessions == 1..MaxSessions

\* The JSON-RPC ids a request can carry.
ReqIds == {"id1", "id2"}

\* The texts an agent can answer with, and the message parts a request can
\* carry: no part at all, or one text part.
Replies == {"r1", "r2"}
PartsInputs == {<<>>, <<[text |-> "q"]>>}
Managers == {"AgentTaskManager", "OrchestratorTaskManager"}

\* models/task.py of level 3 is not among the sources. AgentTaskManager calls
\* TaskState(state=TaskState.PENDING): TaskState is either a class that takes
\* the keyword state, or an Enum (as level 4 uses it, next to the class
\* TaskStatus), whose call with a keyword raises TypeError.
TaskStateKinds == {"Class", "Enum"}

\* models/request.py is not among the sources either. handle_request hands
\* the bytes of "await request.body()" to A2ARequest.validate_python: a
\* pydantic TypeAdapter of the request models takes no bytes for a model and
\* raises ValidationError; any other A2ARequest decodes them.
A2ARequestKinds == {"TypeAdapter", "Decoder"}

NoOne == 0
NoTask == 0
NoId == "none"

\* The TaskState members the managers assign.
PENDING == "pending"
COMPLETED == "completed"

NoReq == [id |-> NoId, method |-> "none", sessionId |-> 0, parts |-> <<>>]
NoTaskValue == [id |-> 0, status |-> "none", history |-> <<>>]
NoResp == [id |-> NoId, result |-> NoTaskValue]

\* The end-user conversations (the sessionId of the incoming request) and
\* the _delegate_task / call_agent calls in flight.
MaxCalls == 2
Calls == 1..MaxCalls
Conversations == {1, 2}
NoSession == [src |-> "none", n |-> 0]
NoCall == [conv |-> 0, name |-> <<>>]
NoListing == [called |-> FALSE, names |-> <<>>]
NoAnswer(k) == [kind |-> k, status |-> 0, body |-> ""]
NoPayload == [message |-> "", sessionId |-> NoSession]
NoConnector == [name |-> <<>>, url |-> "", serial |-> 0]

MaxRuns == 2
Runs == 1..MaxRuns
NoChannel == 0

MaxItems == 2
NoExecTask == [id |-> "", contextId |-> ""]

MaxUpdates == 2
MaxStreams == 3
None == "None"
Absent == "absent"
NoMessage == [text |-> "", taskId |-> Absent, contextId |-> Absent]
NoUpdate == [kind |-> "none", taskId |-> "", contextId |-> "", state |-> ""]
NoLatest == [task_id |-> None, context_id |-> None, input_required |-> FALSE]

MaxPosts == 2
NoElem == [type |-> "none", text |-> ""]
NoPartsValue == [type |-> "absent", first |-> NoElem]
NoMessageValue == [type |-> "absent", role |-> "", parts |-> NoPartsValue]
NoBody == [json |-> "none", id |-> Absent, message |-> NoMessageValue]
NoReply == [http |-> 0, error |-> "", task_id |-> Absent, state |-> "", messages |-> <<>>]

VARIABLES
    taskManager,  \* the task manager class the server was built with
    taskState,    \* what level 3's models/task.py defines TaskState to be
    a2aRequest,   \* what models/request.py defines A2ARequest to be
    tasks,        \* _tasks: sessionId -> reference to a Task object (or NoTask)
    heap,         \* the Task objects ever constructed, by reference
    lock,         \* self.lock: the handler holding it, or NoOne
    running,      \* the coroutine the event loop is executing, or NoOne
    pc,           \* each handler's position
    req,          \* each handler's decoded request
    task,         \* each handler's local variable task (a reference)
    reply,        \* each handler's agent response text
    resp,         \* each handler's JSON-RPC response
    err,          \* the exception a handler ended with
    creator,      \* history: the handler whose upsert constructed each Task
    snap,         \* history: the handler's Task as it was when its invocation began
    completed     \* history: the invocations that returned, in the order they returned

vars == <<taskManager, taskState, a2aRequest, tasks, heap, lock, running, pc, req, task, reply, resp,
          err, creator, snap, completed>>

\* DiscoveryClient (utilities/discovery.py).
VARIABLES
    registry,     \* the content of the registry file
    baseUrls,     \* self.base_urls
    dpc,          \* the position of the client: construction, list_agent_card
    didx,         \* list_agent_card: the position of the loop in base_urls
    agentCard,    \* list_agent_card: the local list agent_card
    outcomes      \* history: how each query issued so far ended

discVars == <<registry, baseUrls, dpc, didx, agentCard, outcomes>>

\* GreetingAgent's tool call_agent (agents/greeting_agent/agent.py): the
\* resolution of an agent name against the discovered cards.
VARIABLES
    cards,        \* the cards list_agent_cards returned, in its order
    agentName,    \* the argument agent_name
    rpc,          \* "start", then "resolved" or "unknown" (ValueError)
    matched       \* the position in cards of the card matched, 0 for None

resVars == <<cards, agentName, rpc, matched>>

\* OrchestratorAgent (agents/host_agent/orchestrator.py): its connectors, its
\* tools, and the calls of _list_agents and _delegate_task.
VARIABLES
    agentCards,   \* the argument agent_cards of __init__
    mcpTools,     \* the tools self.mcp.get_tools() returned, by name
    connectors,   \* self.connectors, in the insertion order of the dict
    mcpWrapper,   \* self._mcp_wrapper, by the name of the wrapped tool
    opc,          \* "new", "ready"; "off" when the orchestrator is not there
    listing,      \* what the last _list_agents returned
    toolState,    \* tool_context.state["session_id"] of each conversation
    uuids,        \* how many uuid4 values _delegate_task has drawn
    dpos,         \* the position of each _delegate_task call
    dreq,         \* its conversation and its arguments
    dchild,       \* the history of child_task
    dresult,      \* what the call returned
    outbound,     \* history: the connector calls made, in order
    built         \* history: the connectors constructed, in order

orchVars == <<agentCards, mcpTools, connectors, mcpWrapper, opc, listing,
              toolState, uuids, dpos, dreq, dchild, dresult, outbound, built>>

\* GreetingAgent (agents/greeting_agent/agent.py): the connector cache and
\* the calls of call_agent.
VARIABLES
    gpc,          \* "ready"; "off" when the agent is not there
    cache,        \* self.connectors, in the insertion order of the dict
    cpos,         \* the position of each call_agent call
    creq,         \* its conversation and its arguments
    ctarget,      \* the connector it uses
    cchild,       \* the history of the Task send_task returned
    cresult,      \* what the call returned
    csent,        \* history: the connector calls made, in order
    cbuilt        \* history: the connectors constructed, in order

greetVars == <<gpc, cache, cpos, creq, ctarget, cchild, cresult, csent, cbuilt>>

\* AgentConnector and A2AClient (utilities/a2a/agent_connector.py,
\* client/client.py): send_task.
VARIABLES
    kpc,          \* "idle", "posting", "done"; "off" when there is no connector
    kpayload,     \* the message and the session id of the send_task in hand
    posts,        \* history: how many POST requests the client has made
    sends,        \* history: how many send_task calls have begun
    kanswer,      \* history: how the last POST ended
    kresult       \* what the last send_task returned or raised

connVars == <<kpc, kpayload, posts, sends, kanswer, kresult>>

\* MCPConnector (utilities/mcp/mcp_connector.py) with MCPDiscovery
\* (utilities/mcp/mcp_discovery.py): the loading of the tools.
VARIABLES
    mconfig,      \* the servers under "mcpServers", in the order of the file
    mpc,          \* "new", "loading", "done", "raised"; "off" when not there
    midx,         \* _fetch: the position of the loop in the servers
    mtools,       \* self.tools
    manswers      \* history: how the session with each server went

mcpVars == <<mconfig, mpc, midx, mtools, manswers>>

\* MCPTool.run (utilities/mcp/mcp_connector.py): the invocations of a tool.
VARIABLES
    tpos,         \* the position of each run: "idle", "spawned", "session",
                  \* "initialized", "returned", "raised"
    tchan,        \* the channel (server process and streams) the run opened
    topen,        \* the channels that are open
    tspawned,     \* history: how many channels stdio_client has opened
    tcalls,       \* history: the call_tool calls made, each with its channel
    tname,        \* self.name of the tool of each run
    tresult       \* what each run returned

toolVars == <<tpos, tchan, topen, tspawned, tcalls, tname, tresult>>

\* TellTimeAgentExecutor (a2a_level_5/agent/agent_executor.py) with
\* TellTimeAgent.stream (a2a_level_5/agent/agent.py): one run of execute.
VARIABLES
    epc,          \* "new", "streaming", "done", "raised"; "off" when not there
    econtext,     \* the RequestContext: has it a message, its current task
    eitems,       \* the items the graph streams, by the kind of the last message
    estructured,  \* the structured_response of the graph's state at the end
    eidx,         \* how many items stream has consumed
    etask,        \* the local variable task
    equeue        \* the events enqueued on event_queue, in order

execVars == <<epc, econtext, eitems, estructured, eidx, etask, equeue>>

\* The client (a2a_level_5/client/client.py): interactive_loop,
\* handle_streaming and handle_non_streaming.
VARIABLES
    supportsStreaming, \* agent_card.capabilities.streaming
    spc,          \* "idle", "streaming", "asking", "awaiting", "replied",
                  \* "awaiting_follow_up", "done", "raised", "exited"; "off"
    sreply,       \* the answer of send_message to the query
    spayload,     \* the message payload of the request in hand
    sstream,      \* the updates of the stream being consumed
    sidx,         \* how many of them the loop has consumed
    latest,       \* latest_task_id, latest_context_id, input_required
    snsent        \* history: how many requests have been sent

clientVars == <<supportsStreaming, spc, sreply, spayload, sstream, sidx, latest, snsent>>

\* The level-1 server (a2a_level_1/a2a_server/time_server.py): handle_task.
VARIABLES
    lpc,          \* "idle", "handling", "responded"; "off" when not there
    lbody,        \* the body of the request in hand
    lresp,        \* the response to it
    lserved       \* history: how many requests have been answered

serverVars == <<lpc, lbody, lresp, lserved>>

\* What the steps of each component leave alone.
otherThanTask == <<discVars, resVars, orchVars, greetVars, connVars, mcpVars, toolVars, execVars, clientVars, serverVars>>
otherThanDiscovery == <<vars, resVars, orchVars, greetVars, connVars, mcpVars, toolVars, execVars, clientVars, serverVars>>
otherThanResolve == <<vars, discVars, orchVars, greetVars, connVars, mcpVars, toolVars, execVars, clientVars, serverVars>>
otherThanOrchestrator == <<vars, discVars, resVars, greetVars, connVars, mcpVars, toolVars, execVars, clientVars, serverVars>>
otherThanGreeting == <<vars, discVars, resVars, orchVars, connVars, mcpVars, toolVars, execVars, clientVars, serverVars>>
otherThanConnector == <<vars, discVars, resVars, orchVars, greetVars, mcpVars, toolVars, execVars, clientVars, serverVars>>
otherThanMcp == <<vars, discVars, resVars, orchVars, greetVars, connVars, toolVars, execVars, clientVars, serverVars>>
otherThanTool == <<vars, discVars, resVars, orchVars, greetVars, connVars, mcpVars, execVars, clientVars, serverVars>>
otherThanExecutor == <<vars, discVars, resVars, orchVars, greetVars, connVars, mcpVars, toolVars, clientVars, serverVars>>
otherThanClient == <<vars, discVars, resVars, orchVars, greetVars, connVars, mcpVars, toolVars, execVars, serverVars>>
otherThanServer == <<vars, discVars, resVars, orchVars, greetVars, connVars, mcpVars, toolVars, execVars, clientVars>>
allVars == <<vars, discVars, resVars, orchVars, greetVars, connVars, mcpVars, toolVars, execVars, clientVars, serverVars>>

\* The components at rest: the state of a component in the specifications of
\* the other components.
DiscoveryAtRest ==
    /\ registry = [kind |-> "missing", entries |-> <<>>]
    /\ baseUrls = <<>>
    /\ dpc = "off"
    /\ didx = 0
    /\ agentCard = <<>>
    /\ outcomes = <<>>

ResolveAtRest ==
    /\ cards = <<>>
    /\ agentName = <<>>
    /\ rpc = "off"
    /\ matched = 0

OrchestratorIdle ==
    /\ connectors = <<>>
    /\ mcpWrapper = <<>>
    /\ listing = NoListing
    /\ toolState = [c \in Conversations |-> NoSession]
    /\ uuids = 0
    /\ dpos = [d \in Calls |-> "idle"]
    /\ dreq = [d \in Calls |-> NoCall]
    /\ dchild = [d \in Calls |-> <<>>]
    /\ dresult = [d \in Calls |-> ""]
    /\ outbound = <<>>
    /\ built = <<>>

OrchestratorAtRest ==
    /\ agentCards = <<>>
    /\ mcpTools = <<>>
    /\ opc = "off"
    /\ OrchestratorIdle

GreetingIdle ==
    /\ cache = <<>>
    /\ cpos = [d \in Calls |-> "idle"]
    /\ creq = [d \in Calls |-> NoCall]
    /\ ctarget = [d \in Calls |-> NoConnector]
    /\ cchild = [d \in Calls |-> <<>>]
    /\ cresult = [d \in Calls |-> ""]
    /\ csent = <<>>
    /\ cbuilt = <<>>

GreetingAtRest ==
    /\ gpc = "off"
    /\ GreetingIdle

ConnectorIdle ==
    /\ kpayload = NoPayload
    /\ posts = 0
    /\ sends = 0
    /\ kanswer = NoAnswer("none")
    /\ kresult = "none"

ConnectorAtRest ==
    /\ kpc = "off"
    /\ ConnectorIdle

McpIdle ==
    /\ midx = 0
    /\ mtools = <<>>
    /\ manswers = <<>>

McpAtRest ==
    /\ mconfig = <<>>
    /\ mpc = "off"
    /\ McpIdle

ToolIdle ==
    /\ tchan = [r \in Runs |-> NoChannel]
    /\ topen = {}
    /\ tspawned = 0
    /\ tcalls = <<>>
    /\ tname = [r \in Runs |-> ""]
    /\ tresult = [r \in Runs |-> ""]

ToolAtRest ==
    /\ tpos = [r \in Runs |-> "off"]
    /\ ToolIdle

ExecutorIdle ==
    /\ eidx = 0
    /\ etask = NoExecTask
    /\ equeue = <<>>

ExecutorAtRest ==
    /\ epc = "off"
    /\ econtext = [message |-> FALSE, task |-> NoExecTask]
    /\ eitems = <<>>
    /\ estructured = "none"
    /\ ExecutorIdle

ClientIdle ==
    /\ sreply = NoUpdate
    /\ spayload = NoMessage
    /\ sstream = <<>>
    /\ sidx = 0
    /\ latest = NoLatest
    /\ snsent = 0

ClientAtRest ==
    /\ supportsStreaming = TRUE
    /\ spc = "off"
    /\ ClientIdle

ServerIdle ==
    /\ lbody = NoBody
    /\ lresp = NoReply
    /\ lserved = 0

ServerAtRest ==
    /\ lpc = "off"
    /\ ServerIdle

TaskStoreEmpty ==
    /\ tasks = [s \in Sessions |-> NoTask]
    /\ heap = <<>>
    /\ lock = NoOne
    /\ running = NoOne
    /\ pc = [h \in Handlers |-> "idle"]
    /\ req = [h \in Handlers |-> NoReq]
    /\ task = [h \in Handlers |-> NoTask]
    /\ reply = [h \in Handlers |-> ""]
    /\ resp = [h \in Handlers |-> NoResp]
    /\ err = [h \in Handlers |-> ""]
    /\ creator = <<>>
    /\ snap = [h \in Handlers |-> NoTaskValue]
    /\ completed = <<>>

TaskAtRest ==
    /\ taskManager = "AgentTaskManager"
    /\ taskState = "Class"
    /\ a2aRequest = "Decoder"
    /\ TaskStoreEmpty

Init ==
    /\ taskManager \in Managers
    /\ taskState \in (IF taskManager = "AgentTaskManager"
                       THEN TaskStateKinds ELSE {"Enum"})
    /\ a2aRequest \in A2ARequestKinds
    /\ TaskStoreEmpty
    /\ DiscoveryAtRest
    /\ ResolveAtRest
    /\ OrchestratorAtRest
    /\ GreetingAtRest
    /\ ConnectorAtRest
    /\ McpAtRest
    /\ ToolAtRest
    /\ ExecutorAtRest
    /\ ClientAtRest
    /\ ServerAtRest

\* ------------------------------------------------------------- helpers

\* An exception leaving on_send_task: handle_request's except clause ends the
\* handler with an error response.
Raise(h, e) ==
    /\ pc' = [pc EXCEPT ![h] = "failed"]
    /\ err' = [err EXCEPT ![h] = e]
    /\ running' = NoOne

\* server.py line 54: A2ARequest.validate_python(body) with body the raw
\* bytes of the request.
ValidatesBytes ==
    a2aRequest = "Decoder"

\* upsert_task: "if task_id not in self._tasks".
NeedsCreate(sid) ==
    tasks[sid] = NoTask

\* AgentTaskManager: status=TaskState(state=TaskState.PENDING) and
\* task.status = TaskState(state=TaskState.COMPLETED) construct a status only
\* when TaskState is a class; the lookup of an Enum with the keyword state
\* raises TypeError. OrchestratorTaskManager writes
\* TaskStatus(state=TaskState.COMPLETED), with TaskState an Enum.
StatusConstructs ==
    ~(taskManager = "AgentTaskManager" /\ taskState = "Enum")

\* upsert_task: Task(id=task_id, status=PENDING, history=[]).
NewTask(sid) ==
    [id |-> sid, status |-> PENDING, history |-> <<>>]

\* _get_user_query / _get_user_text: request.params.message.parts[0].text
\* raises IndexError on an empty parts list.
HasUserText(r) ==
    Len(r.parts) >= 1

\* AgentTaskManager calls self._agent.invoke(...) synchronously: the event loop
\* stays with the handler for the whole invocation. OrchestratorTaskManager
\* awaits self.agent.invoke(...): the handler is suspended meanwhile.
InvokeSuspends ==
    taskManager = "OrchestratorTaskManager"

\* Who the event loop runs while handler h's agent invocation is outstanding.
InvokeHolder(h) ==
    IF InvokeSuspends THEN NoOne ELSE h

\* Message(role="agent", parts=[TextPart(text=response)]).
AgentMessage(text) ==
    [role |-> "agent", text |-> text]

\* The message of a request as an entry of a history.
UserEntry(r) ==
    [role |-> "user", text |-> IF HasUserText(r) THEN r.parts[1].text ELSE ""]

\* The Task that the inherited upsert_task stores for a new session.
StoredTask(r) ==
    [id |-> r.sessionId, status |-> PENDING, history |-> <<UserEntry(r)>>]

\* Variant: the status is left at the streaming flow's intermediate state.
StatusOnReply_Working ==
    "working"

\* task.status = TaskState(state=TaskState.COMPLETED).
StatusOnReply ==
    COMPLETED

\* Variant: the reply is inserted at the front.
AppendReply_Prepend(history, message) ==
    <<message>> \o history

\* task.history.append(agent_message).
AppendReply(history, message) ==
    Append(history, message)

\* Variant: the id is left to JSONRPCMessage's default factory (a new uuid).
ResponseId_Default(h) ==
    "uuid"

\* SendTaskResponse(id=request.id, result=task).
ResponseId(h) ==
    req[h].id

\* asyncio.Lock.acquire as entered by "async with self.lock": a free lock is
\* taken without suspending; a taken one suspends the caller until it is free.
Acquire(h, first, waiting, inside) ==
    /\ \/ pc[h] = first /\ running = h
       \/ pc[h] = waiting /\ running = NoOne /\ lock = NoOne
    /\ IF lock = NoOne
       THEN /\ lock' = h
            /\ pc' = [pc EXCEPT ![h] = inside]
            /\ running' = h
       ELSE /\ lock' = lock
            /\ pc' = [pc EXCEPT ![h] = waiting]
            /\ running' = NoOne

\* json_rpc.py: InternalError's defaults are code -32603, message
\* "Internal error" and data None.
InternalErrorCode == -32603
NoData == "null"

InternalError(message, data) ==
    [code |-> InternalErrorCode, message |-> message, data |-> data]

NoError == [code |-> 0, message |-> "", data |-> NoData]
NoErrorResponse == [kind |-> "none", http |-> 0, id |-> NoId, error |-> NoError]

\* json_rpc.py: JSONRPCMessage declares "id: str"; constructing the model
\* with id=None fails its validation.
IdIsStr(i) ==
    i # NoId

\* Variant: the except clause passes the request's id and puts the text of the
\* exception into the error's data.

\* handle_request's except clause for a request r whose handling raised an
\* exception with text e: JSONRPCResponse(id=None,
\* error=InternalError(message=str(e))) sent with status 400. The text goes
\* into message, data keeps its default (the InternalError(data=str(e)) built
\* on the line before is not used). When the construction of the
\* JSONRPCResponse itself raises, the exception leaves handle_request and the
\* framework answers 500 without a JSON-RPC body.
ExceptClause(r, e) ==
    IF IdIsStr(NoId)
    THEN [kind |-> "envelope", http |-> 400, id |-> NoId, error |-> InternalError(e, NoData)]
    ELSE [kind |-> "escaped", http |-> 500, id |-> NoId, error |-> NoError]

\* What the client of handler h gets when its handling has failed.
ErrorResponse(h) ==
    IF pc[h] = "failed" THEN ExceptClause(req[h], err[h]) ELSE NoErrorResponse

\* ------------------------------------------------------------- actions

\* The session ids a new request can name: those already used and the next
\* unused one (session ids are numbered in the order of their first use).
UsedSessions ==
    {req[g].sessionId : g \in Handlers}

SessionInputs ==
    {s \in Sessions : s = 1 \/ (s - 1) \in UsedSessions}

\* The requests a client can send: a send-task request names a session and
\* carries a message; any other request (tasks/get) has neither.
RequestInputs ==
    {[id |-> i, method |-> "tasks/send", sessionId |-> s, parts |-> p] :
        i \in ReqIds, s \in SessionInputs, p \in PartsInputs}
    \cup {[id |-> i, method |-> "tasks/get", sessionId |-> 0, parts |-> <<>>] : i \in ReqIds}

\* handle_request begins: a request arrives and the handler suspends in
\* "await request.body()". Handlers are numbered in arrival order.
Receive(h) ==
    /\ pc[h] = "idle"
    /\ running = NoOne
    /\ \A g \in Handlers : g < h => pc[g] # "idle"
    /\ \E r \in RequestInputs : req' = [req EXCEPT ![h] = r]
    /\ pc' = [pc EXCEPT ![h] = "body"]
    /\ UNCHANGED <<taskManager, taskState, a2aRequest, tasks, heap, lock, running, task, reply, resp, err,
                   creator, snap, completed>>
    /\ UNCHANGED otherThanTask

\* Variant: the isinstance test is left out, every decoded request is handed
\* to the task manager.
Dispatch_NoTypeCheck(h) ==
    /\ pc[h] = "body"
    /\ running = NoOne
    /\ IF ~ValidatesBytes
       THEN Raise(h, "ValidationError")
       ELSE /\ pc' = [pc EXCEPT ![h] = "upsert"]
            /\ running' = h
            /\ err' = err
    /\ UNCHANGED <<taskManager, taskState, a2aRequest, tasks, heap, lock, req, task, reply, resp,
                   creator, snap, completed>>
    /\ UNCHANGED otherThanTask

\* handle_request resumes with the body: it is validated, which raises
\* ValidationError when A2ARequest takes no bytes; a SendTaskRequest goes on
\* to on_send_task, anything else raises
\* ValueError("Unsupported request type").
Dispatch(h) ==
    /\ pc[h] = "body"
    /\ running = NoOne
    /\ IF ~ValidatesBytes
       THEN Raise(h, "ValidationError")
       ELSE IF req[h].method = "tasks/send"
       THEN /\ pc' = [pc EXCEPT ![h] = "upsert"]
            /\ running' = h
            /\ err' = err
       ELSE Raise(h, "ValueError")
    /\ UNCHANGED <<taskManager, taskState, a2aRequest, tasks, heap, lock, req, task, reply, resp,
                   creator, snap, completed>>
    /\ UNCHANGED otherThanTask

\* upsert_task: async with self.lock.
UpsertAcquire(h) ==
    /\ Acquire(h, "upsert", "upsert_wait", "upsert_body")
    /\ UNCHANGED <<taskManager, taskState, a2aRequest, tasks, heap, req, task, reply, resp, err,
                   creator, snap, completed>>
    /\ UNCHANGED otherThanTask

\* AgentTaskManager.upsert_task, the body under the lock: create the Task on
\* first use, return the stored one; leaving the with block releases the
\* lock.
UpsertBody(h) ==
    /\ taskManager = "AgentTaskManager"
    /\ pc[h] = "upsert_body"
    /\ running = h
    /\ LET sid == req[h].sessionId IN
       IF ~NeedsCreate(sid)
       THEN /\ task' = [task EXCEPT ![h] = tasks[sid]]
            /\ pc' = [pc EXCEPT ![h] = "query"]
            /\ UNCHANGED <<heap, creator, tasks, err, running>>
       ELSE IF StatusConstructs
       THEN /\ heap' = Append(heap, NewTask(sid))
            /\ creator' = Append(creator, h)
            /\ tasks' = [tasks EXCEPT ![sid] = Len(heap) + 1]
            /\ task' = [task EXCEPT ![h] = Len(heap) + 1]
            /\ pc' = [pc EXCEPT ![h] = "query"]
            /\ UNCHANGED <<err, running>>
       ELSE /\ Raise(h, "TypeError")
            /\ UNCHANGED <<heap, creator, tasks, task>>
    /\ lock' = NoOne
    /\ UNCHANGED <<taskManager, taskState, a2aRequest, req, reply, resp, snap, completed>>
    /\ UNCHANGED otherThanTask

\* InMemoryTaskManager.upsert_task, which OrchestratorTaskManager inherits
\* with the lock, is not among the sources. By on_send_task's docstring and
\* comment ("Store the incoming user message", "save the initial message") it
\* stores the message of the request: a new Task starts with it as its
\* history, an existing Task gets it appended; the Task is returned.
InheritedUpsertBody(h) ==
    /\ taskManager = "OrchestratorTaskManager"
    /\ pc[h] = "upsert_body"
    /\ running = h
    /\ LET sid == req[h].sessionId IN
       IF NeedsCreate(sid)
       THEN /\ heap' = Append(heap, StoredTask(req[h]))
            /\ creator' = Append(creator, h)
            /\ tasks' = [tasks EXCEPT ![sid] = Len(heap) + 1]
            /\ task' = [task EXCEPT ![h] = Len(heap) + 1]
       ELSE /\ heap' = [heap EXCEPT ![tasks[sid]].history = Append(@, UserEntry(req[h]))]
            /\ task' = [task EXCEPT ![h] = tasks[sid]]
            /\ UNCHANGED <<creator, tasks>>
    /\ lock' = NoOne
    /\ pc' = [pc EXCEPT ![h] = "query"]
    /\ UNCHANGED <<taskManager, taskState, a2aRequest, running, req, reply, resp, err,
                   snap, completed>>
    /\ UNCHANGED otherThanTask

\* _get_user_query(request): parts[0].text, IndexError when there is no part.
GetUserQuery(h) ==
    /\ pc[h] = "query"
    /\ running = h
    /\ IF HasUserText(req[h])
       THEN /\ pc' = [pc EXCEPT ![h] = "invoke"]
            /\ UNCHANGED <<err, running>>
       ELSE Raise(h, "IndexError")
    /\ UNCHANGED <<taskManager, taskState, a2aRequest, tasks, heap, lock, req, task, reply, resp,
                   creator, snap, completed>>
    /\ UNCHANGED otherThanTask

\* Variant: the Task is marked working before the agent is invoked.
InvokeBegin_MarkWorking(h) ==
    /\ pc[h] = "invoke"
    /\ running = h
    /\ pc' = [pc EXCEPT ![h] = "invoking"]
    /\ snap' = [snap EXCEPT ![h] = heap[task[h]]]
    /\ heap' = [heap EXCEPT ![task[h]].status = "working"]
    /\ running' = InvokeHolder(h)
    /\ UNCHANGED <<taskManager, taskState, a2aRequest, tasks, lock, req, task, reply, resp, err,
                   creator, completed>>
    /\ UNCHANGED otherThanTask

\* The agent invocation begins.
InvokeBegin(h) ==
    /\ pc[h] = "invoke"
    /\ running = h
    /\ pc' = [pc EXCEPT ![h] = "invoking"]
    /\ snap' = [snap EXCEPT ![h] = heap[task[h]]]
    /\ running' = InvokeHolder(h)
    /\ UNCHANGED <<taskManager, taskState, a2aRequest, tasks, heap, lock, req, task, reply, resp, err,
                   creator, completed>>
    /\ UNCHANGED otherThanTask

\* The agent invocation returns its response text; the handler goes on to
\* build the agent message.
InvokeReturn(h) ==
    /\ pc[h] = "invoking"
    /\ running = InvokeHolder(h)
    /\ \E r \in Replies :
          /\ reply' = [reply EXCEPT ![h] = r]
          /\ completed' = Append(completed, [h |-> h, sessionId |-> req[h].sessionId, text |-> r])
    /\ pc' = [pc EXCEPT ![h] = "append"]
    /\ running' = h
    /\ UNCHANGED <<taskManager, taskState, a2aRequest, tasks, heap, lock, req, task, resp, err,
                   creator, snap>>
    /\ UNCHANGED otherThanTask

\* Variant: a failed invocation marks the Task as error, whatever its status.
InvokeRaise_MarkError(h) ==
    /\ pc[h] = "invoking"
    /\ running = InvokeHolder(h)
    /\ Raise(h, "AgentError")
    /\ heap' = [heap EXCEPT ![task[h]].status = "error"]
    /\ UNCHANGED <<taskManager, taskState, a2aRequest, tasks, lock, req, task, reply, resp,
                   creator, snap, completed>>
    /\ UNCHANGED otherThanTask

\* The agent invocation raises (model failure, transport error or timeout of
\* an outbound call): no except clause in on_send_task, the exception leaves it.
InvokeRaise(h) ==
    /\ pc[h] = "invoking"
    /\ running = InvokeHolder(h)
    /\ Raise(h, "AgentError")
    /\ UNCHANGED <<taskManager, taskState, a2aRequest, tasks, heap, lock, req, task, reply, resp,
                   creator, snap, completed>>
    /\ UNCHANGED otherThanTask

\* on_send_task: async with self.lock, before the update.
AppendAcquire(h) ==
    /\ Acquire(h, "append", "append_wait", "set_status")
    /\ UNCHANGED <<taskManager, taskState, a2aRequest, tasks, heap, req, task, reply, resp, err,
                   creator, snap, completed>>
    /\ UNCHANGED otherThanTask

\* task.status = COMPLETED; an exception raised here leaves the with block,
\* which releases the lock.
SetStatus(h) ==
    /\ pc[h] = "set_status"
    /\ running = h
    /\ IF StatusConstructs
       THEN /\ heap' = [heap EXCEPT ![task[h]].status = StatusOnReply]
            /\ pc' = [pc EXCEPT ![h] = "append_history"]
            /\ UNCHANGED <<lock, err, running>>
       ELSE /\ Raise(h, "TypeError")
            /\ lock' = NoOne
            /\ heap' = heap
    /\ UNCHANGED <<taskManager, taskState, a2aRequest, tasks, req, task, reply, resp,
                   creator, snap, completed>>
    /\ UNCHANGED otherThanTask

\* task.history.append(agent_message); leaving the with block releases the lock.
AppendHistory(h) ==
    /\ pc[h] = "append_history"
    /\ running = h
    /\ heap' = [heap EXCEPT ![task[h]].history = AppendReply(@, AgentMessage(reply[h]))]
    /\ lock' = NoOne
    /\ pc' = [pc EXCEPT ![h] = "return"]
    /\ UNCHANGED <<taskManager, taskState, a2aRequest, tasks, running, req, task, reply, resp, err,
                   creator, snap, completed>>
    /\ UNCHANGED otherThanTask

\* Variant: the response carries the Task as it was handed out by upsert_task,
\* a copy made before the invocation.
Return_BeforeInvocation(h) ==
    /\ pc[h] = "return"
    /\ running = h
    /\ resp' = [resp EXCEPT ![h] = [id |-> ResponseId(h), result |-> snap[h]]]
    /\ pc' = [pc EXCEPT ![h] = "done"]
    /\ running' = NoOne
    /\ UNCHANGED <<taskManager, taskState, a2aRequest, tasks, heap, lock, req, task, reply, err,
                   creator, snap, completed>>
    /\ UNCHANGED otherThanTask

\* return SendTaskResponse(id=request.id, result=task), serialised by
\* _create_response; the handler ends.
Return(h) ==
    /\ pc[h] = "return"
    /\ running = h
    /\ resp' = [resp EXCEPT ![h] = [id |-> ResponseId(h), result |-> heap[task[h]]]]
    /\ pc' = [pc EXCEPT ![h] = "done"]
    /\ running' = NoOne
    /\ UNCHANGED <<taskManager, taskState, a2aRequest, tasks, heap, lock, req, task, reply, err,
                   creator, snap, completed>>
    /\ UNCHANGED otherThanTask

Next ==
    \E h \in Handlers :
        \/ Receive(h)
        \/ Dispatch(h)
        \/ UpsertAcquire(h)
        \/ UpsertBody(h)
        \/ InheritedUpsertBody(h)
        \/ GetUserQuery(h)
        \/ InvokeBegin(h)
        \/ InvokeReturn(h)
        \/ InvokeRaise(h)
        \/ AppendAcquire(h)
        \/ SetStatus(h)
        \/ AppendHistory(h)
        \/ Return(h)

Spec == Init /\ [][Next]_vars

\* ------------------------------------------------------------- properties

SendRequest(h) ==
    pc[h] # "idle" /\ req[h].method = "tasks/send"

SameSession(a, b) ==
    SendRequest(a) /\ SendRequest(b) /\ req[a].sessionId = req[b].sessionId

IsPrefix(s, t) ==
    Len(s) <= Len(t) /\ SubSeq(t, 1, Len(s)) = s

\* Handler h's call of upsert_task has ended, by a return or by an exception.
UpsertEnded(h) ==
    /\ req[h].method = "tasks/send"
    /\ pc[h] \notin {"idle", "body", "upsert", "upsert_wait", "upsert_body"}
    /\ ~(pc[h] = "failed" /\ err[h] = "ValidationError")

\* C1: for every sessionId, all upsert_task calls, in any interleaving, create
\* exactly one Task and return that same Task: every call that has ended has
\* handed out the Task the store holds for the sessionId, and no second one
\* exists.
C1_OneTaskPerSession ==
    /\ \A a, b \in Handlers :
          (task[a] # NoTask /\ task[b] # NoTask /\ req[a].sessionId = req[b].sessionId)
             => task[a] = task[b]
    /\ \A o1, o2 \in DOMAIN heap : heap[o1].id = heap[o2].id => o1 = o2
    /\ \A h \in Handlers :
          task[h] # NoTask =>
             /\ tasks[req[h].sessionId] = task[h]
             /\ heap[task[h]].id = req[h].sessionId
    /\ \A h \in Handlers : UpsertEnded(h) => task[h] # NoTask

\* C2: a request without a text part fails and leaves the task store as it was:
\* the failing request has constructed no Task.
C2_FormatErrorCreatesNoTask ==
    \A h \in Handlers :
        (pc[h] = "failed" /\ err[h] = "IndexError")
           => \A o \in DOMAIN heap : creator[o] # h

\* C3: a Task's history only grows, by exactly one entry in the step in which
\* an on_send_task on its session appends its reply; its length is the number
\* of on_send_task calls on it that got that far, and a failing call changes no
\* Task.
HistoryStep ==
    /\ \A o \in DOMAIN heap :
          LET old == heap[o].history
              new == heap'[o].history
              appending == {h \in Handlers :
                              task[h] = o /\ pc[h] = "append_history" /\ pc'[h] = "return"}
              succeeded == {h \in Handlers : task'[h] = o /\ pc'[h] \in {"return", "done"}}
          IN  /\ IsPrefix(old, new)
              /\ Len(new) = Len(old) + Cardinality(appending)
              /\ Len(new) = Cardinality(succeeded)
    /\ \A h \in Handlers :
          (pc[h] # "failed" /\ pc'[h] = "failed") => (heap' = heap /\ tasks' = tasks)

Edges ==
    { <<"pending", "working">>, <<"working", "input_required">>,
      <<"working", "completed">>, <<"pending", "error">>, <<"working", "error">>,
      <<"input_required", "working">>, <<"pending", "completed">> }

StatusStep ==
    /\ \A o \in DOMAIN heap :
          heap'[o].status # heap[o].status => <<heap[o].status, heap'[o].status>> \in Edges
    /\ \A o \in DOMAIN heap' :
          o \notin DOMAIN heap => heap'[o].status = PENDING

C4_StatusFollowsEdges ==
    [][StatusStep]_vars

\* A request whose invocation began on a Task that was already completed has
\* been answered: the Task is still completed.
C4_Witness ==
    \E o \in DOMAIN heap :
        /\ heap[o].status = COMPLETED
        /\ Len(heap[o].history) >= 1
        /\ \E h \in Handlers :
              task[h] = o /\ pc[h] = "done" /\ snap[h].status = COMPLETED

\* C5: when the agent invocation raises for a Task that is pending or working,
\* the Task's status becomes error.
FailureStep ==
    \A h \in Handlers :
        (pc[h] = "invoking" /\ pc'[h] = "failed"
           /\ heap[task[h]].status \in {"pending", "working"})
           => heap'[task[h]].status = "error"

C5_FailureMarksError ==
    [][FailureStep]_vars

\* C6: whenever another handler can run (no coroutine is in the middle of a
\* step), every Task is pending exactly when its history holds no agent reply
\* and completed exactly when it holds at least one.
AgentReplies(o) ==
    {i \in 1..Len(heap[o].history) : heap[o].history[i].role = "agent"}

C6_StatusAgreesWithHistory ==
    running = NoOne =>
        \A o \in DOMAIN heap :
            /\ heap[o].status = PENDING <=> AgentReplies(o) = {}
            /\ heap[o].status = COMPLETED <=> AgentReplies(o) # {}

\* A completed Task with its reply is in the store while another handler of the
\* same session, which holds a reference to it, is suspended in its invocation.
C6_Witness ==
    /\ running = NoOne
    /\ \E a, b \in Handlers :
          /\ a # b
          /\ task[a] = task[b]
          /\ pc[a] = "done" /\ pc[b] = "invoking"
          /\ heap[task[a]].status = COMPLETED

HistoryTexts(o) ==
    LET replies == SelectSeq(heap[o].history, LAMBDA m : m.role = "agent")
    IN  [i \in 1..Len(replies) |-> replies[i].text]

CompletedTexts(s) ==
    LET sel == SelectSeq(completed, LAMBDA c : c.sessionId = s)
    IN  [i \in 1..Len(sel) |-> sel[i].text]

C8_HistoryInCompletionOrder ==
    \A s \in Sessions :
        tasks[s] # NoTask =>
            /\ IsPrefix(HistoryTexts(tasks[s]), CompletedTexts(s))
            /\ running = NoOne => HistoryTexts(tasks[s]) = CompletedTexts(s)

\* Two requests of one session were answered with different texts, and the
\* reply to the one that was issued first (its upsert created the Task) comes
\* second in the history.
C8_Witness ==
    \E a, b \in Handlers :
        /\ a # b
        /\ SameSession(a, b)
        /\ pc[a] = "done" /\ pc[b] = "done"
        /\ creator[task[a]] = a
        /\ reply[a] # reply[b]
        /\ HistoryTexts(task[a]) = <<reply[b], reply[a]>>

\* C9 as stated: when the invocation fails, the lock is not held and the Task
\* has exactly the status and history it had when the invocation began.
FailureRestoresStep ==
    \A h \in Handlers :
        (pc[h] = "invoking" /\ pc'[h] = "failed")
           => (lock' = NoOne /\ heap'[task[h]] = snap[h])

C9_TaskAsBeforeInvocation ==
    [][FailureRestoresStep]_vars

\* C9 as amended: when the invocation fails, the lock is not held, the failing
\* step changes no Task, and the Task differs from what it was when the
\* invocation began only by the entries other requests of the session added
\* meanwhile: the messages their upserts stored and the replies they appended
\* (with a reply its status is completed, without one it is unchanged).
AddedByOthers(h, m) ==
    \E g \in Handlers \ {h} :
        /\ task[g] = task[h]
        /\ \/ m = UserEntry(req[g])
           \/ pc[g] \in {"return", "done"} /\ m = AgentMessage(reply[g])

FailureNoHalfUpdateStep ==
    \A h \in Handlers :
        (pc[h] = "invoking" /\ pc'[h] = "failed")
           => /\ lock' = NoOne
              /\ heap' = heap
              /\ tasks' = tasks
              /\ LET now == heap'[task[h]]
                     before == Len(snap[h].history)
                     added == (before + 1)..Len(now.history)
                 IN
                 /\ now.id = snap[h].id
                 /\ IsPrefix(snap[h].history, now.history)
                 /\ \A i \in added : AddedByOthers(h, now.history[i])
                 /\ IF \E i \in added : now.history[i].role = "agent"
                    THEN now.status = COMPLETED
                    ELSE now.status = snap[h].status

C9_NoHalfUpdate ==
    [][FailureNoHalfUpdateStep]_vars

\* An invocation has failed on a Task that another request of the session
\* extended while the invocation was outstanding.
C9_Witness ==
    \E h \in Handlers :
        /\ pc[h] = "failed" /\ err[h] = "AgentError"
        /\ lock = NoOne
        /\ Len(heap[task[h]].history) > Len(snap[h].history)

\* C10: the response to a send-task request that was handled successfully
\* carries the id of that request.
C10_ResponseEchoesId ==
    \A h \in Handlers :
        pc[h] = "done" => (resp[h].id = req[h].id /\ resp[h].id \in ReqIds)

\* A request has been answered while an earlier request of the same session,
\* with another id, is still in its invocation.
C10_Witness ==
    \E a, b \in Handlers :
        /\ a # b
        /\ SameSession(a, b)
        /\ req[a].id # req[b].id
        /\ pc[a] = "done" /\ pc[b] = "invoking"
        /\ creator[task[b]] = b
        /\ resp[a].id = req[a].id

\* C33: with requests of one session handled at the same time, the Task in
\* the response to a request has as its last history entry the reply that was
\* produced for that request, not the reply of another request.
C33_ResponseCarriesOwnReply ==
    \A h \in Handlers :
        pc[h] = "done" =>
            LET history == resp[h].result.history
            IN  /\ Len(history) >= 1
                /\ history[Len(history)] = AgentMessage(reply[h])

\* Two requests of one session, the first to arrive answered last: its
\* response ends with its own reply, after the reply of the other.
C33_Witness ==
    /\ taskManager = "OrchestratorTaskManager"
    /\ pc[1] = "done"
    /\ pc[2] = "done"
    /\ SameSession(1, 2)
    /\ reply[1] # reply[2]
    /\ resp[1].result.history =
          <<UserEntry(req[1]), UserEntry(req[2]),
            AgentMessage(reply[2]), AgentMessage(reply[1])>>
    /\ resp[2].result.history =
          <<UserEntry(req[1]), UserEntry(req[2]), AgentMessage(reply[2])>>

\* C11: the error response to a request whose handling failed carries the id
\* of that request.
C11_ErrorEchoesId ==
    \A h \in Handlers :
        pc[h] = "failed" =>
            (ErrorResponse(h).kind = "envelope" /\ ErrorResponse(h).id = req[h].id)

\* C12: whenever the handling of a request raises, handle_request returns an
\* error envelope with code -32603 whose data is the text of the exception.
C12_InternalErrorWithData ==
    \A h \in Handlers :
        pc[h] = "failed" =>
            /\ ErrorResponse(h).kind = "envelope"
            /\ ErrorResponse(h).error.code = InternalErrorCode
            /\ ErrorResponse(h).error.data = err[h]

\* C13: a request that is not a send-task request is rejected: its handler
\* goes from the body straight to the except clause, the client gets an error
\* status and no result, the task manager is not entered, and no Task is
\* created or changed by the handler.
RejectStep ==
    \A h \in Handlers :
        (req'[h].method = "tasks/get" /\ pc'[h] # pc[h]) =>
            /\ pc'[h] \in {"body", "failed"}
            /\ heap' = heap /\ tasks' = tasks /\ lock' = lock
            /\ task'[h] = NoTask
            /\ resp'[h] = NoResp
            /\ pc'[h] = "failed" =>
                  /\ err'[h] \in {"ValueError", "ValidationError"}
                  /\ ExceptClause(req'[h], err'[h]).http >= 400

C13_UnsupportedRejected ==
    [][RejectStep]_vars

\* A tasks/get request has been rejected while the store holds a Task that a
\* send-task request created before: the Task is untouched.
C13_Witness ==
    \E a, b \in Handlers :
        /\ a # b
        /\ req[a].method = "tasks/get" /\ pc[a] = "failed" /\ err[a] = "ValueError"
        /\ ErrorResponse(a).http >= 400
        /\ task[a] = NoTask
        /\ pc[b] = "invoking"
        /\ heap[task[b]] = NewTask(req[b].sessionId)

\* ===================================================== DiscoveryClient
\* utilities/discovery.py: the registry file, the construction of the client
\* and list_agent_card.

\* The entries a registry list can hold.  isStr tells whether the JSON value
\* is a string; text is the string, or the JSON text of a value of another
\* type.
EntryInputs ==
    { [isStr |-> TRUE, text |-> "http://a"],
      [isStr |-> TRUE, text |-> "http://b/"],
      [isStr |-> TRUE, text |-> "nonsense"],
      [isStr |-> FALSE, text |-> "7"] }

\* A string with a scheme and a host that httpx can send a request to.
IsUrl(e) == e.isStr /\ e.text \in {"http://a", "http://b/"}

\* The registry file: missing, not JSON, JSON but not a list, or a list.
RegistryInputs ==
    { [kind |-> k, entries |-> <<>>] : k \in {"missing", "not_json", "not_list"} }
    \cup
    { [kind |-> "list", entries |-> es] :
        es \in UNION { [1..n -> EntryInputs] : n \in 0..MaxSources } }

\* _load_registry: the list of the file as it is, [] for every failure.
LoadRegistry(reg) == IF reg.kind = "list" THEN reg.entries ELSE <<>>

\* How a query can end.  An answer has a status and a body: a body that is a
\* valid descriptor, one that is not JSON, or JSON that is not a descriptor.
Statuses == {200, 203, 404}
Bodies == {"card", "not_json", "not_card"}
QueryOutcomes ==
    { NoAnswer("connect_error"), NoAnswer("timeout") }
    \cup
    { [kind |-> "response", status |-> st, body |-> b] :
        st \in Statuses, b \in Bodies }

\* client.get on a string that is no URL raises before anything is sent.
OutcomesFor(e) == IF IsUrl(e) THEN QueryOutcomes ELSE { NoAnswer("invalid_url") }

\* response.raise_for_status(): raises unless the status is a 2xx.
RaiseForStatus(st) == ~(st \in 200..299)

\* Lines 59-63 complete without an exception.
Accepted(o) ==
    /\ o.kind = "response"
    /\ ~RaiseForStatus(o.status)
    /\ o.body = "card"

\* The descriptor that the source configured by entry e serves.
CardOf(e) == [source |-> e.text]

DiscoveryInit ==
    /\ registry \in RegistryInputs
    /\ baseUrls = <<>>
    /\ dpc = "new"
    /\ didx = 0
    /\ agentCard = <<>>
    /\ outcomes = <<>>
    /\ TaskAtRest
    /\ ResolveAtRest
    /\ OrchestratorAtRest
    /\ GreetingAtRest
    /\ ConnectorAtRest
    /\ McpAtRest
    /\ ToolAtRest
    /\ ExecutorAtRest
    /\ ClientAtRest
    /\ ServerAtRest

\* DiscoveryClient.__init__
Construct ==
    /\ dpc = "new"
    /\ baseUrls' = LoadRegistry(registry)
    /\ dpc' = "ready"
    /\ UNCHANGED <<registry, didx, agentCard, outcomes>>
    /\ UNCHANGED otherThanDiscovery

\* list_agent_card, lines 54-55: the empty result list and the HTTP client.
ListBegin ==
    /\ dpc = "ready"
    /\ agentCard' = <<>>
    /\ didx' = 1
    /\ dpc' = "loop"
    /\ UNCHANGED <<registry, baseUrls, outcomes>>
    /\ UNCHANGED otherThanDiscovery

\* The head of the loop and lines 57-59: the next entry, its url (rstrip is
\* outside the try, and only a string has it), the query issued and awaited.
\* After the last entry the list is returned.
ListQuery ==
    /\ dpc = "loop"
    /\ IF didx > Len(baseUrls)
       THEN dpc' = "returned"
       ELSE IF ~baseUrls[didx].isStr
            THEN dpc' = "raised"
            ELSE dpc' = "waiting"
    /\ UNCHANGED <<registry, baseUrls, didx, agentCard, outcomes>>
    /\ UNCHANGED otherThanDiscovery

\* Lines 59-65: the awaited query ends; the descriptor is appended, or the
\* exception is logged and the loop goes on.
ListAnswer ==
    /\ dpc = "waiting"
    /\ \E o \in OutcomesFor(baseUrls[didx]) :
        /\ outcomes' = Append(outcomes, o)
        /\ agentCard' = IF Accepted(o)
                        THEN Append(agentCard, CardOf(baseUrls[didx]))
                        ELSE agentCard
    /\ didx' = didx + 1
    /\ dpc' = "loop"
    /\ UNCHANGED <<registry, baseUrls>>
    /\ UNCHANGED otherThanDiscovery

DiscoveryNext ==
    \/ Construct
    \/ ListBegin
    \/ ListQuery
    \/ ListAnswer

SpecDiscovery == DiscoveryInit /\ [][DiscoveryNext]_allVars


\* ------------------------------------------ properties of discovery

\* A source fails when the query gets no answer, an answer whose status is
\* not 200, or an answer whose body is not a valid descriptor.
Failed(o) == ~(o.kind = "response" /\ o.status = 200 /\ o.body = "card")

\* The descriptors of the sources among the first n that did not fail, in
\* the order of the sources.
RECURSIVE Succeeded(_)
Succeeded(n) ==
    IF n = 0
    THEN <<>>
    ELSE IF Failed(outcomes[n])
         THEN Succeeded(n - 1)
         ELSE Append(Succeeded(n - 1), CardOf(baseUrls[n]))

AllStrings == \A i \in 1..Len(baseUrls) : baseUrls[i].isStr

\* C14: with N configured sources of which K fail (connection error, timeout,
\* non-200 status, invalid descriptor body), list_agent_card does not raise
\* and returns exactly the N - K descriptors of the sources that succeeded,
\* in the order of the sources.
C14_ReturnsSucceededInOrder ==
    AllStrings =>
        /\ dpc # "raised"
        /\ dpc = "returned" =>
            /\ Len(outcomes) = Len(baseUrls)
            /\ agentCard = Succeeded(Len(baseUrls))

\* C15: an empty or malformed source list (file missing, not JSON, not a
\* list, or a list with an entry that is not a URL string) never makes
\* discovery raise, and the malformed input contributes no descriptor.
C15_MalformedListNeverRaises ==
    /\ dpc # "raised"
    /\ dpc = "returned" =>
        /\ registry.kind # "list" => agentCard = <<>>
        /\ \A i \in 1..Len(agentCard) :
            \E j \in 1..Len(baseUrls) :
                IsUrl(baseUrls[j]) /\ agentCard[i] = CardOf(baseUrls[j])

\* C16: the sources are queried concurrently: while the query to one source
\* is outstanding, the query to every other source has been issued too.
C16_QueriesConcurrent ==
    dpc = "waiting" => didx = Len(baseUrls)


\* ================================================ GreetingAgent.call_agent
\* agents/greeting_agent/agent.py: the resolution of agent_name against the
\* cards of discovery.  A string is the tuple of its characters.

UpperCase == <<"A", "B", "C", "D", "E", "F", "G", "H", "I", "J", "K", "L", "M", "N", "O", "P", "Q", "R", "S", "T", "U", "V", "W", "X", "Y", "Z">>
LowerCase == <<"a", "b", "c", "d", "e", "f", "g", "h", "i", "j", "k", "l", "m", "n", "o", "p", "q", "r", "s", "t", "u", "v", "w", "x", "y", "z">>

\* str.lower() on one character and on a string.
LowerChar(ch) ==
    IF \E i \in 1..Len(UpperCase) : UpperCase[i] = ch
    THEN LowerCase[CHOOSE i \in 1..Len(UpperCase) : UpperCase[i] = ch]
    ELSE ch
ToLower(str) == [i \in 1..Len(str) |-> LowerChar(str[i])]

\* needle in hay
Contains(needle, hay) ==
    \E i \in 0..(Len(hay) - Len(needle)) :
        SubSeq(hay, i + 1, i + Len(needle)) = needle

\* The names of the cards and the names asked for.
TellTimeAgent == <<"T", "e", "l", "l", "T", "i", "m", "e", "A", "g", "e", "n", "t">>
Translator == <<"T", "r", "a", "n", "s", "l", "a", "t", "o", "r">>
TimeName == <<"T", "i", "m", "e">>
Timer == <<"T", "i", "m", "e", "r">>
CardNames == {TellTimeAgent, Translator, TimeName, Timer}

AskTellTimeAgent == <<"t", "e", "l", "l", " ", "t", "i", "m", "e", " ", "a", "g", "e", "n", "t">>
AskTime == <<"t", "i", "m", "e">>
AskWeather == <<"W", "e", "a", "t", "h", "e", "r">>
AskTimeUpper == <<"T", "I", "M", "E">>
AskT == <<"t">>
AskNothing == <<>>
QueryNames == {AskTellTimeAgent, AskTime, AskWeather, AskTimeUpper, AskT, AskNothing}

CardInputs == { [name |-> n] : n \in CardNames }
CardLists == UNION { [1..n -> CardInputs] : n \in 0..MaxCards }

\* getattr(c, "id", ""): AgentCard declares no field id.
CardId(c) == <<>>

\* The condition of the first pass (lines 92-93).
ExactMatch(c, name) ==
    \/ ToLower(c.name) = ToLower(name)
    \/ ToLower(CardId(c)) = ToLower(name)

\* The condition of the fallback (line 100).
SubstringMatch_CaseSensitive(c, name) == Contains(name, c.name)
SubstringMatch(c, name) == Contains(ToLower(name), ToLower(c.name))

\* next((c for c in cs if P(c)), None), given for each card whether P holds
\* of it: the position of the first card that satisfies P, 0 for None.
FirstMatch_Last(hits) ==
    IF \E i \in 1..Len(hits) : hits[i]
    THEN CHOOSE i \in 1..Len(hits) :
            hits[i] /\ \A j \in (i + 1)..Len(hits) : ~hits[j]
    ELSE 0
FirstMatch(hits) ==
    IF \E i \in 1..Len(hits) : hits[i]
    THEN CHOOSE i \in 1..Len(hits) :
            hits[i] /\ \A j \in 1..(i - 1) : ~hits[j]
    ELSE 0

\* Lines 90-102: the exact pass, then the fallback if it found nothing.
ResolveCard_SinglePass(cs, name) ==
    FirstMatch([i \in 1..Len(cs) |->
                    ExactMatch(cs[i], name) \/ SubstringMatch(cs[i], name)])
ResolveCard(cs, name) ==
    LET first == FirstMatch([i \in 1..Len(cs) |-> ExactMatch(cs[i], name)])
    IN  IF first # 0
        THEN first
        ELSE FirstMatch([i \in 1..Len(cs) |-> SubstringMatch(cs[i], name)])

ResolveInit ==
    /\ cards \in CardLists
    /\ agentName \in QueryNames
    /\ rpc = "start"
    /\ matched = 0
    /\ TaskAtRest
    /\ DiscoveryAtRest
    /\ OrchestratorAtRest
    /\ GreetingAtRest
    /\ ConnectorAtRest
    /\ McpAtRest
    /\ ToolAtRest
    /\ ExecutorAtRest
    /\ ClientAtRest
    /\ ServerAtRest

\* call_agent, lines 87-106: the card matched, or ValueError "not found".
ResolveAgent ==
    /\ rpc = "start"
    /\ matched' = ResolveCard(cards, agentName)
    /\ rpc' = IF matched' = 0 THEN "unknown" ELSE "resolved"
    /\ UNCHANGED <<cards, agentName>>
    /\ UNCHANGED otherThanResolve

ResolveNext ==
    \/ ResolveAgent

SpecResolve == ResolveInit /\ [][ResolveNext]_allVars

\* ------------------------------------------ properties of call_agent

\* The registry of the scenario: TellTimeAgent and Translator, in either
\* order.
ScenarioCards ==
    cards \in { <<[name |-> TellTimeAgent], [name |-> Translator]>>,
                <<[name |-> Translator], [name |-> TellTimeAgent]>> }

ResolvedTo(n) == rpc = "resolved" /\ cards[matched].name = n

NameEqual(c) == ToLower(c.name) = ToLower(agentName)
NameContains(c) == Contains(ToLower(agentName), ToLower(c.name))
NamesEqual == [i \in 1..Len(cards) |-> NameEqual(cards[i])]
NamesContain == [i \in 1..Len(cards) |-> NameContains(cards[i])]
IsFirst(hits, i) ==
    /\ i \in 1..Len(hits)
    /\ hits[i]
    /\ \A j \in 1..(i - 1) : ~hits[j]

\* C17: with the registry {TellTimeAgent, Translator}, call_agent resolves
\* the name "tell time agent" to TellTimeAgent.
C17_SpacedNameResolves ==
    (ScenarioCards /\ agentName = AskTellTimeAgent /\ rpc # "start")
        => ResolvedTo(TellTimeAgent)

\* C18: with the registry {TellTimeAgent, Translator}, "time" resolves to
\* TellTimeAgent although no name equals it (the substring fallback), and
\* "Weather" resolves to no agent: the unknown-capability error.
C18_TimeBySubstringWeatherUnknown ==
    (ScenarioCards /\ rpc # "start") =>
        /\ agentName = AskTime =>
            /\ ResolvedTo(TellTimeAgent)
            /\ \A i \in 1..Len(cards) : ~NameEqual(cards[i])
        /\ agentName = AskWeather => (rpc = "unknown" /\ matched = 0)

C18_Witness ==
    /\ cards = <<[name |-> Translator], [name |-> TellTimeAgent]>>
    /\ agentName = AskTime
    /\ rpc = "resolved"
    /\ matched = 2

\* C19: the resolution is a function of the cards and the name, and a card
\* whose name equals the name asked for (case-insensitively) wins over a
\* card registered earlier whose name only contains it: the first card with
\* an equal name is the one matched.
C19_ExactWinsOverSubstring ==
    (rpc # "start" /\ \E i \in 1..Len(cards) : NameEqual(cards[i]))
        => (rpc = "resolved" /\ IsFirst(NamesEqual, matched))

C19_Witness ==
    /\ cards = <<[name |-> TellTimeAgent], [name |-> Timer], [name |-> TimeName]>>
    /\ agentName = AskTimeUpper
    /\ rpc = "resolved"
    /\ matched = 3

\* C20: when no name equals the name asked for and the names of several
\* cards contain it, the first of these in the order of the cards is the one
\* matched.
C20_FirstSubstringMatchWins ==
    ( /\ rpc # "start"
      /\ \A i \in 1..Len(cards) : ~NameEqual(cards[i])
      /\ \E i, j \in 1..Len(cards) :
            i # j /\ NameContains(cards[i]) /\ NameContains(cards[j]) )
        => (rpc = "resolved" /\ IsFirst(NamesContain, matched))

C20_Witness ==
    /\ cards = <<[name |-> Translator], [name |-> Timer], [name |-> TellTimeAgent]>>
    /\ agentName = AskTime
    /\ rpc = "resolved"
    /\ matched = 2


\* ===================================================== OrchestratorAgent
\* agents/host_agent/orchestrator.py: __init__, _list_agents, _delegate_task.

MaxAgentCards == 2

\* The cards handed to __init__: two names, and a second url for the first.
\* The cards come from discovery, one per base url.
OrchCardInputs ==
    { [name |-> TellTimeAgent, url |-> "http://a"],
      [name |-> Translator, url |-> "http://b"],
      [name |-> TellTimeAgent, url |-> "http://c"] }
OrchCardLists ==
    { cs \in UNION { [1..n -> OrchCardInputs] : n \in 0..MaxAgentCards } :
        \A i, j \in 1..Len(cs) : cs[i].url = cs[j].url => i = j }

\* The tools the MCP connector loaded, by name.
ReadFile == <<"r", "e", "a", "d", "_", "f", "i", "l", "e">>
ToolLists == { <<>>, <<ReadFile>> }

\* The names _delegate_task is called with: the names of the cards as they
\* are, one in lower case, one that is part of a name, one of no agent.
AskLowerCase == <<"t", "e", "l", "l", "t", "i", "m", "e", "a", "g", "e", "n", "t">>
DelegateNames == {TellTimeAgent, Translator, AskLowerCase, AskTime, AskWeather}

\* The conversations a new call can belong to: conversations are numbered in
\* the order of their first call.
RECURSIVE MaxOf(_)
MaxOf(S) == IF S = {} THEN 0 ELSE LET x == CHOOSE y \in S : TRUE
                                  IN  IF x > MaxOf(S \ {x}) THEN x ELSE MaxOf(S \ {x})
ConversationInputs(seen) == { c \in Conversations : c <= MaxOf(seen) + 1 }

\* Session ids: the sessionId of the incoming request of conversation c, the
\* n-th value of uuid4, GreetingAgent's user_id.
Incoming(c) == [src |-> "incoming", n |-> c]
Uuid(n) == [src |-> "uuid4", n |-> n]
UserId == [src |-> "user_id", n |-> 0]

\* A dict in insertion order: the position of a key, 0 when it is absent.
KeyPos(dict, name) ==
    IF \E i \in 1..Len(dict) : dict[i].name = name
    THEN CHOOSE i \in 1..Len(dict) : dict[i].name = name
    ELSE 0

\* dict[name] = conn: a key that is there keeps its position.
Put(dict, conn) ==
    IF KeyPos(dict, conn.name) = 0
    THEN Append(dict, conn)
    ELSE [dict EXCEPT ![KeyPos(dict, conn.name)] = conn]

\* AgentConnector(name, url): serial tells the objects apart.
AgentConnector(name, url, serial) == [name |-> name, url |-> url, serial |-> serial]

\* __init__, lines 61-64: one connector per card, stored under its name.
RECURSIVE RegisterCards(_, _)
RegisterCards(cs, n) ==
    IF n = 0
    THEN <<>>
    ELSE Put(RegisterCards(cs, n - 1), AgentConnector(cs[n].name, cs[n].url, n))

Names(seq) == [i \in 1..Len(seq) |-> seq[i].name]

\* The Task a connector call can return: its history, each message with the
\* texts of its parts.
UserMessage == [role |-> "user", parts |-> <<"q">>]
AgentReply == [role |-> "agent", parts |-> <<"r">>]
NoParts == [role |-> "agent", parts |-> <<>>]
HistoryInputs ==
    { <<>>, <<AgentReply>>, <<UserMessage, AgentReply>>, <<UserMessage, NoParts>> }

\* _delegate_task, lines 163-165: what it returns for child_task.history.
\* "raised" is the IndexError of parts[0].
DelegateResult(h) ==
    IF Len(h) > 0 /\ Len(h) > 1
    THEN IF Len(h[Len(h)].parts) = 0
         THEN [pos |-> "raised", text |-> ""]
         ELSE [pos |-> "returned", text |-> h[Len(h)].parts[1]]
    ELSE [pos |-> "returned", text |-> ""]

\* _delegate_task, lines 154-157: the session id of the call and the state
\* after it.
DelegateState_Fresh(state, n) == Uuid(n + 1)
DelegateState(state, n) == IF state = NoSession THEN Uuid(n + 1) ELSE state

OrchestratorInit ==
    /\ agentCards \in OrchCardLists
    /\ mcpTools \in ToolLists
    /\ opc = "new"
    /\ OrchestratorIdle

\* OrchestratorAgent.__init__
OrchConstruct ==
    /\ opc = "new"
    /\ connectors' = RegisterCards(agentCards, Len(agentCards))
    /\ built' = Names(agentCards)
    /\ mcpWrapper' = mcpTools
    /\ opc' = "ready"
    /\ UNCHANGED <<agentCards, mcpTools, listing, toolState, uuids, dpos, dreq,
                   dchild, dresult, outbound>>
    /\ UNCHANGED otherThanOrchestrator

\* _list_agents
ListAgents ==
    /\ opc = "ready"
    /\ ~listing.called
    /\ listing' = [called |-> TRUE, names |-> Names(connectors)]
    /\ UNCHANGED <<agentCards, mcpTools, connectors, mcpWrapper, opc, toolState,
                   uuids, dpos, dreq, dchild, dresult, outbound, built>>
    /\ UNCHANGED otherThanOrchestrator

\* Variant: the session id is looked up and stored before the connector is.
DelegateBegin_SessionFirst(d) ==
    /\ opc = "ready"
    /\ dpos[d] = "idle"
    /\ IF d = 1 THEN TRUE ELSE dpos[d - 1] # "idle"
    /\ \E c \in ConversationInputs({dreq[e].conv : e \in Calls}),
          name \in DelegateNames :
        LET sid == DelegateState(toolState[c], uuids)
        IN  /\ dreq' = [dreq EXCEPT ![d] = [conv |-> c, name |-> name]]
            /\ toolState' = [toolState EXCEPT ![c] = sid]
            /\ uuids' = IF sid = toolState[c] THEN uuids ELSE uuids + 1
            /\ IF KeyPos(connectors, name) = 0
               THEN /\ dpos' = [dpos EXCEPT ![d] = "unknown"]
                    /\ UNCHANGED outbound
               ELSE /\ outbound' = Append(outbound,
                            [conv |-> c, target |-> connectors[KeyPos(connectors, name)],
                             sessionId |-> sid])
                    /\ dpos' = [dpos EXCEPT ![d] = "awaiting"]
    /\ UNCHANGED <<agentCards, mcpTools, connectors, mcpWrapper, opc, listing,
                   dchild, dresult, built>>
    /\ UNCHANGED otherThanOrchestrator

\* _delegate_task up to the await of line 160: the lookup of the connector,
\* the session id, the call of send_task.
DelegateBegin(d) ==
    /\ opc = "ready"
    /\ dpos[d] = "idle"
    /\ IF d = 1 THEN TRUE ELSE dpos[d - 1] # "idle"
    /\ \E c \in ConversationInputs({dreq[e].conv : e \in Calls}),
          name \in DelegateNames :
        /\ dreq' = [dreq EXCEPT ![d] = [conv |-> c, name |-> name]]
        /\ IF KeyPos(connectors, name) = 0
           THEN /\ dpos' = [dpos EXCEPT ![d] = "unknown"]
                /\ UNCHANGED <<toolState, uuids, outbound>>
           ELSE LET sid == DelegateState(toolState[c], uuids)
                    conn == connectors[KeyPos(connectors, name)]
                IN  /\ toolState' = [toolState EXCEPT ![c] = sid]
                    /\ uuids' = IF sid = toolState[c] THEN uuids ELSE uuids + 1
                    /\ outbound' = Append(outbound,
                            [conv |-> c, target |-> conn, sessionId |-> sid])
                    /\ dpos' = [dpos EXCEPT ![d] = "awaiting"]
    /\ UNCHANGED <<agentCards, mcpTools, connectors, mcpWrapper, opc, listing,
                   dchild, dresult, built>>
    /\ UNCHANGED otherThanOrchestrator

\* send_task returns a Task: lines 160-165.
DelegateEnd(d) ==
    /\ dpos[d] = "awaiting"
    /\ \E h \in HistoryInputs :
        /\ dchild' = [dchild EXCEPT ![d] = h]
        /\ dpos' = [dpos EXCEPT ![d] = DelegateResult(h).pos]
        /\ dresult' = [dresult EXCEPT ![d] = DelegateResult(h).text]
    /\ UNCHANGED <<agentCards, mcpTools, connectors, mcpWrapper, opc, listing,
                   toolState, uuids, dreq, outbound, built>>
    /\ UNCHANGED otherThanOrchestrator

\* send_task raises: the exception leaves _delegate_task at line 160.
DelegateFail(d) ==
    /\ dpos[d] = "awaiting"
    /\ dpos' = [dpos EXCEPT ![d] = "failed"]
    /\ UNCHANGED <<agentCards, mcpTools, connectors, mcpWrapper, opc, listing,
                   toolState, uuids, dreq, dchild, dresult, outbound, built>>
    /\ UNCHANGED otherThanOrchestrator


\* ========================================================= GreetingAgent
\* agents/greeting_agent/agent.py: call_agent with its connector cache.

\* The peers of the registry, in its order: two names that both contain
\* "time", and a second url for the first name.  A call of list_agent_cards
\* returns the cards of the peers that answer it, in the order of the registry.
Peers ==
    << [name |-> TellTimeAgent, url |-> "http://a"],
       [name |-> Timer, url |-> "http://b"],
       [name |-> TellTimeAgent, url |-> "http://c"] >>

RECURSIVE CardsOf(_, _)
CardsOf(answering, n) ==
    IF n = 0
    THEN <<>>
    ELSE IF n \in answering
         THEN Append(CardsOf(answering, n - 1), Peers[n])
         ELSE CardsOf(answering, n - 1)

UrlCardLists == { CardsOf(a, Len(Peers)) : a \in SUBSET (1..Len(Peers)) }

CallNames == {TellTimeAgent, Timer, AskTime, AskWeather}

\* Lines 108-116: the cache after the lookup of the matched card; a
\* connector is built only for a key that is not there.
CacheFor_Rebuild(dict, card, serial) ==
    Put(dict, AgentConnector(card.name, card.url, serial))
CacheFor(dict, card, serial) ==
    IF KeyPos(dict, card.name) = 0
    THEN Append(dict, AgentConnector(card.name, card.url, serial))
    ELSE dict

\* Lines 125-128: what call_agent returns for task.history.
CallResult(h) ==
    IF Len(h) > 0 /\ Len(h[Len(h)].parts) > 0
    THEN h[Len(h)].parts[1]
    ELSE ""

\* The match of lines 90-102 for every answer of discovery and every name
\* asked for.
ResolveTable ==
    [cs \in UrlCardLists |-> [n \in CallNames |-> ResolveCard(cs, n)]]

GreetingInit ==
    /\ gpc = "ready"
    /\ GreetingIdle

\* call_agent up to the await of line 87.
CallBegin(d) ==
    /\ gpc = "ready"
    /\ cpos[d] = "idle"
    /\ IF d = 1 THEN TRUE ELSE cpos[d - 1] # "idle"
    /\ \E c \in ConversationInputs({creq[e].conv : e \in Calls}),
          name \in CallNames :
        creq' = [creq EXCEPT ![d] = [conv |-> c, name |-> name]]
    /\ cpos' = [cpos EXCEPT ![d] = "discovering"]
    /\ UNCHANGED <<gpc, cache, ctarget, cchild, cresult, csent, cbuilt>>
    /\ UNCHANGED otherThanGreeting

\* list_agent_cards returns: lines 87-122 up to the await of send_task, the
\* match, the cache, the session id and the call.
CallResolve(d) ==
    /\ cpos[d] = "discovering"
    /\ \E cs \in UrlCardLists :
        LET m == ResolveTable[cs][creq[d].name]
        IN  IF m = 0
            THEN /\ cpos' = [cpos EXCEPT ![d] = "unknown"]
                 /\ UNCHANGED <<cache, ctarget, csent, cbuilt>>
            ELSE LET after == CacheFor(cache, cs[m], Len(cbuilt) + 1)
                     conn == after[KeyPos(after, cs[m].name)]
                 IN  /\ cache' = after
                     /\ cbuilt' = IF after = cache
                                  THEN cbuilt
                                  ELSE Append(cbuilt, cs[m].name)
                     /\ ctarget' = [ctarget EXCEPT ![d] = conn]
                     /\ csent' = Append(csent,
                            [conv |-> creq[d].conv, asked |-> creq[d].name,
                             card |-> cs[m], target |-> conn,
                             sessionId |-> UserId])
                     /\ cpos' = [cpos EXCEPT ![d] = "sending"]
    /\ UNCHANGED <<gpc, creq, cchild, cresult>>
    /\ UNCHANGED otherThanGreeting

\* send_task returns a Task: lines 122-128.
CallEnd(d) ==
    /\ cpos[d] = "sending"
    /\ \E h \in HistoryInputs :
        /\ cchild' = [cchild EXCEPT ![d] = h]
        /\ cresult' = [cresult EXCEPT ![d] = CallResult(h)]
    /\ cpos' = [cpos EXCEPT ![d] = "returned"]
    /\ UNCHANGED <<gpc, cache, creq, ctarget, csent, cbuilt>>
    /\ UNCHANGED otherThanGreeting

\* send_task raises: the exception leaves call_agent at line 122.
CallFail(d) ==
    /\ cpos[d] = "sending"
    /\ cpos' = [cpos EXCEPT ![d] = "failed"]
    /\ UNCHANGED <<gpc, cache, creq, ctarget, cchild, cresult, csent, cbuilt>>
    /\ UNCHANGED otherThanGreeting

\* ------------------------------------------------- the two routing agents

\* A node runs one of the two agents.
RoutingInit ==
    /\ \/ OrchestratorInit /\ GreetingAtRest
       \/ OrchestratorAtRest /\ GreetingInit
    /\ TaskAtRest
    /\ DiscoveryAtRest
    /\ ResolveAtRest
    /\ ConnectorAtRest
    /\ McpAtRest
    /\ ToolAtRest
    /\ ExecutorAtRest
    /\ ClientAtRest
    /\ ServerAtRest

RoutingNext ==
    \/ OrchConstruct
    \/ ListAgents
    \/ \E d \in Calls :
        \/ DelegateBegin(d)
        \/ DelegateEnd(d)
        \/ DelegateFail(d)
        \/ CallBegin(d)
        \/ CallResolve(d)
        \/ CallEnd(d)
        \/ CallFail(d)

SpecRouting == RoutingInit /\ [][RoutingNext]_allVars


\* ------------------------------------------ properties of the routing agents

\* The position in outbound of the connector call of _delegate_task call d.
OutIndex(d) == Cardinality({ e \in 1..d : dpos[e] \notin {"idle", "unknown"} })

Range(seq) == { seq[i] : i \in 1..Len(seq) }

\* C21: _delegate_task resolves agent_name in two tiers: a registered agent
\* whose name equals it ignoring case is dispatched to, otherwise the first
\* registered agent whose name contains it ignoring case, and only when there
\* is neither is the unknown-agent error raised.
C21_DelegateTwoTier ==
    \A d \in Calls :
        dpos[d] # "idle" =>
            LET m == ResolveCard(connectors, dreq[d].name)
            IN  IF m = 0
                THEN dpos[d] = "unknown"
                ELSE /\ dpos[d] # "unknown"
                     /\ outbound[OutIndex(d)].target = connectors[m]

\* C22: once call_agent has resolved a name to a remote target, every later
\* call_agent with that name goes to the same agent and base url, also when
\* other peers answer discovery.
C22_SameNameSameTarget ==
    \A i, j \in 1..Len(csent) :
        (i < j /\ csent[i].asked = csent[j].asked) =>
            /\ csent[j].target.name = csent[i].target.name
            /\ csent[j].target.url = csent[i].target.url

\* The text of the last entry of a history, "" for none.
LastText(h) ==
    IF Len(h) = 0
    THEN ""
    ELSE IF Len(h[Len(h)].parts) = 0 THEN "" ELSE h[Len(h)].parts[1]

\* C23: _delegate_task and call_agent return the text of the last entry of
\* the history of the Task returned, also for a history of one entry, the
\* empty string for an empty history, and never raise because of the history.
C23_ReturnsLastEntry ==
    \A d \in Calls :
        /\ dpos[d] # "raised"
        /\ dpos[d] = "returned" => dresult[d] = LastText(dchild[d])
        /\ cpos[d] = "returned" => cresult[d] = LastText(cchild[d])

\* C24: two dispatches to TellTimeAgent made one after the other in the
\* conversation whose incoming sessionId is "s1" both send "s1" as the
\* sessionId of the connector call.
C24_OutboundIsIncomingSession ==
    /\ \A i, j \in 1..Len(outbound) :
        ( /\ j = i + 1
          /\ outbound[i].conv = 1 /\ outbound[j].conv = 1
          /\ outbound[i].target.name = TellTimeAgent
          /\ outbound[j].target.name = TellTimeAgent )
            => (outbound[i].sessionId = Incoming(1) /\ outbound[j].sessionId = Incoming(1))
    /\ \A i, j \in 1..Len(csent) :
        ( /\ j = i + 1
          /\ csent[i].conv = 1 /\ csent[j].conv = 1
          /\ csent[i].target.name = TellTimeAgent
          /\ csent[j].target.name = TellTimeAgent )
            => (csent[i].sessionId = Incoming(1) /\ csent[j].sessionId = Incoming(1))

\* C25: within one conversation every _delegate_task call, to whichever
\* agent, sends the same session id: the id is drawn once per conversation and
\* never replaced on a later call.
C25_OneSessionIdPerConversation ==
    /\ \A i, j \in 1..Len(outbound) :
        outbound[i].conv = outbound[j].conv
            => outbound[i].sessionId = outbound[j].sessionId
    /\ uuids = Cardinality({ outbound[i].conv : i \in 1..Len(outbound) })
    /\ \A c \in Conversations :
        toolState[c] # NoSession =>
            \E i \in 1..Len(outbound) :
                outbound[i].conv = c /\ outbound[i].sessionId = toolState[c]

C25_Witness ==
    /\ Len(outbound) = 2
    /\ outbound[1].conv = outbound[2].conv
    /\ outbound[1].target.name # outbound[2].target.name
    /\ outbound[1].sessionId = Uuid(1)
    /\ outbound[2].sessionId = Uuid(1)
    /\ dpos[1] = "returned"
    /\ dpos[2] = "awaiting"

Count(seq, x) == Cardinality({ i \in 1..Len(seq) : seq[i] = x })

\* A call of call_agent that has its connector.
HasConnector(d) == cpos[d] \in {"sending", "returned", "failed"}

\* Every call uses the instance that the cache holds under the name, and the
\* cache has one complete entry per name.
CacheIsWhole ==
    /\ \A d \in Calls :
        HasConnector(d) =>
            /\ KeyPos(cache, ctarget[d].name) # 0
            /\ cache[KeyPos(cache, ctarget[d].name)] = ctarget[d]
    /\ \A i, j \in 1..Len(cache) : cache[i].name = cache[j].name => i = j
    /\ \A i \in 1..Len(cache) : cache[i].url # "" /\ cache[i].serial # 0

\* C28: at most one connector is ever constructed per name, by either agent;
\* later dispatches reuse the cached instance, and concurrent dispatches to a
\* name that is not yet cached build one connector and see a whole cache.
C28_OneConnectorPerName ==
    /\ \A n \in Range(built) : Count(built, n) = 1
    /\ \A n \in Range(cbuilt) : Count(cbuilt, n) = 1
    /\ CacheIsWhole

\* C28, amended: call_agent constructs at most one connector per name and
\* every call uses the cached instance; the orchestrator constructs its
\* connectors in __init__, one per card, keeps per name the connector of the
\* last card with that name, and constructs none when it dispatches.
C28_DispatchBuildsOncePerName ==
    /\ \A n \in Range(cbuilt) : Count(cbuilt, n) = 1
    /\ CacheIsWhole
    /\ opc = "ready" =>
        /\ built = Names(agentCards)
        /\ \A i, j \in 1..Len(connectors) :
            connectors[i].name = connectors[j].name => i = j
        /\ \A i \in 1..Len(connectors) :
            /\ connectors[i].serial \in 1..Len(agentCards)
            /\ agentCards[connectors[i].serial].name = connectors[i].name
            /\ agentCards[connectors[i].serial].url = connectors[i].url
            /\ \A k \in 1..Len(agentCards) :
                agentCards[k].name = connectors[i].name => k <= connectors[i].serial
    /\ \A d \in Calls :
        dpos[d] \notin {"idle", "unknown"} =>
            outbound[OutIndex(d)].target \in Range(connectors)

C28_Witness ==
    /\ cpos[1] = "sending"
    /\ cpos[2] = "sending"
    /\ creq[1].name = AskTime
    /\ creq[2].name = TellTimeAgent
    /\ ctarget[1] = ctarget[2]
    /\ cbuilt = <<TellTimeAgent>>
    /\ Len(cache) = 1

\* C29: _list_agents returns exactly the names that can be called: every
\* registered agent and every tool loaded is in it, and every name in it has
\* a connector or a tool.
C29_ListingIsResolvableSet ==
    listing.called =>
        Range(listing.names) = Range(Names(connectors)) \cup Range(mcpWrapper)

\* A step in which a call ends with the unknown-agent error.
DelegateUnknownStep(d) == dpos[d] = "idle" /\ dpos'[d] = "unknown"
CallUnknownStep(d) == cpos[d] = "discovering" /\ cpos'[d] = "unknown"

\* C32: a dispatch to a name that is the name of no registered agent ends with
\* the unknown-agent error, and the step that raises it does nothing else: no
\* connector call is made, no connector is built or cached, no session id is
\* drawn or stored.
C32_UnknownHasNoEffect ==
    [][\A d \in Calls :
        /\ (dpos'[d] # "idle" /\ KeyPos(connectors', dreq'[d].name) = 0)
                => dpos'[d] = "unknown"
        /\ DelegateUnknownStep(d) =>
                UNCHANGED <<connectors, built, toolState, uuids, outbound, mcpWrapper>>
        /\ CallUnknownStep(d) =>
                UNCHANGED <<cache, cbuilt, csent, ctarget>>]_allVars

\* A second conversation asked for an agent that is not there, after a call
\* of the first went out: it has no session id and made no call.
C32_Witness ==
    /\ dpos[1] = "returned"
    /\ dpos[2] = "unknown"
    /\ dreq[1].conv = 1
    /\ dreq[2].conv = 2
    /\ dreq[2].name = AskWeather
    /\ toolState[1] = Uuid(1)
    /\ toolState[2] = NoSession
    /\ uuids = 1
    /\ Len(outbound) = 1

\* C34: two different conversations are never delegated under the same
\* session id, by either agent: connector calls made for different
\* conversations carry different session ids.
C34_ConversationsNeverShareSession ==
    /\ \A i, j \in 1..Len(outbound) :
        outbound[i].conv # outbound[j].conv
            => outbound[i].sessionId # outbound[j].sessionId
    /\ \A i, j \in 1..Len(csent) :
        csent[i].conv # csent[j].conv
            => csent[i].sessionId # csent[j].sessionId

\* C35: the connector of a call_agent call has the url of the card
\* matched in that call, also when the card of that name had another url
\* when the connector was cached.
C35_TargetsMatchedUrl ==
    \A i \in 1..Len(csent) : csent[i].target.url = csent[i].card.url


\* ===================================================== AgentConnector
\* utilities/a2a/agent_connector.py and client/client.py: send_task.

MaxSends == 2

\* What the remote end can do with the POST: no answer (connection error,
\* timeout) or an answer with a status and a body.  The body is a response
\* with a Task as result, text that is not JSON, a JSON-RPC error without
\* result, a JSON list, a response whose result is null, or a response whose
\* result is not a Task.
PostStatuses == {200, 400, 500}
PostBodies ==
    {"task", "not_json", "error_envelope", "json_list", "null_result", "not_task"}
PostOutcomes ==
    { NoAnswer("connect_error"), NoAnswer("timeout") }
    \cup
    { [kind |-> "response", status |-> st, body |-> b] :
        st \in PostStatuses, b \in PostBodies }

PayloadInputs ==
    { [message |-> m, sessionId |-> sid] :
        m \in {"q"}, sid \in {Uuid(1), UserId} }

\* _send_request, lines 43-56, then Task(**response["result"]) of line 40: a
\* Task, or the class of the exception raised.
SendResult(o) ==
    IF o.kind # "response" THEN "A2AClientHttpError"
    ELSE IF RaiseForStatus(o.status) THEN "A2AClientHttpError"
    ELSE IF o.body = "not_json" THEN "A2AClientJSONError"
    ELSE IF o.body = "json_list" THEN "TypeError"
    ELSE IF o.body = "error_envelope" THEN "KeyError"
    ELSE IF o.body = "null_result" THEN "TypeError"
    ELSE IF o.body = "not_task" THEN "ValidationError"
    ELSE "Task"

\* Whether the client posts again after outcome o: it never does.
Retries_OnNoAnswer(o) == o.kind # "response"
Retries(o) == FALSE

ConnectorInit ==
    /\ kpc = "idle"
    /\ ConnectorIdle
    /\ TaskAtRest
    /\ DiscoveryAtRest
    /\ ResolveAtRest
    /\ OrchestratorAtRest
    /\ GreetingAtRest
    /\ McpAtRest
    /\ ToolAtRest
    /\ ExecutorAtRest
    /\ ClientAtRest
    /\ ServerAtRest

\* AgentConnector.send_task up to the await of client.post: the payload, the
\* request, the POST.
SendTask ==
    /\ kpc \in {"idle", "done"}
    /\ sends < MaxSends
    /\ kpayload' \in PayloadInputs
    /\ sends' = sends + 1
    /\ posts' = posts + 1
    /\ kpc' = "posting"
    /\ UNCHANGED <<kanswer, kresult>>
    /\ UNCHANGED otherThanConnector

\* The POST ends: the Task is returned or the exception raised.
PostEnds ==
    /\ kpc = "posting"
    /\ \E o \in PostOutcomes :
        /\ kanswer' = o
        /\ IF Retries(o)
           THEN /\ posts' = posts + 1
                /\ kpc' = "posting"
                /\ UNCHANGED kresult
           ELSE /\ kresult' = SendResult(o)
                /\ kpc' = "done"
                /\ UNCHANGED posts
    /\ UNCHANGED <<kpayload, sends>>
    /\ UNCHANGED otherThanConnector

ConnectorNext ==
    \/ SendTask
    \/ PostEnds

SpecConnector == ConnectorInit /\ [][ConnectorNext]_allVars

\* C26: every send_task call makes exactly one outbound request; a failed
\* request is raised to the caller and not tried again.
C26_OnePostPerSend ==
    /\ posts = sends
    /\ kpc = "done" /\ kanswer.kind # "response" => kresult = "A2AClientHttpError"

C26_Witness ==
    /\ kpc = "done"
    /\ sends = 2
    /\ posts = 2
    /\ kanswer = NoAnswer("timeout")
    /\ kresult = "A2AClientHttpError"

\* The failures of the transport and the replies that cannot be decoded into
\* a Task.
TransportFailure(o) == o.kind # "response" \/ ~(o.status \in 200..299)
DecodeFailure(o) == ~TransportFailure(o) /\ o.body # "task"

\* C27: a send_task that returns no Task raises one of two errors, the
\* transport error for a network failure, a timeout or a non-success status,
\* the decode error for a reply that is not JSON or not a Task (a JSON-RPC
\* error without result too); nothing else reaches the caller, and a failed
\* call returns no Task.
C27_TransportOrDecodeError ==
    kpc = "done" =>
        /\ TransportFailure(kanswer) => kresult = "A2AClientHttpError"
        /\ DecodeFailure(kanswer) => kresult = "A2AClientJSONError"
        /\ kresult = "Task" => ~TransportFailure(kanswer) /\ ~DecodeFailure(kanswer)


\* ======================================================== MCPConnector
\* utilities/mcp/mcp_connector.py: __init__ and _load_all_tools.

MaxServers == 2

\* The entries "mcpServers" can hold: a server with its tools, and an entry
\* without "command".
ServerInputs ==
    { [name |-> "fs", command |-> TRUE, tools |-> <<"read_file", "write_file">>],
      [name |-> "web", command |-> TRUE, tools |-> <<"fetch">>],
      [name |-> "idle", command |-> TRUE, tools |-> <<>>],
      [name |-> "bad", command |-> FALSE, tools |-> <<>>] }

\* A JSON object has every key once.
ConfigInputs ==
    { c \in UNION { [1..n -> ServerInputs] : n \in 0..MaxServers } :
        \A i, j \in 1..Len(c) : c[i].name = c[j].name => i = j }

\* How the session with a server can go: an exception before list_tools has
\* answered (the process does not start, the handshake or the listing fails),
\* an answer, or an answer and then an exception when the session is closed.
SessionOutcomes == {"fails", "answers", "answers_close_fails"}

Responded(o) == o \in {"answers", "answers_close_fails"}

\* MCPTool(name=t.name, ..., server_cmd=cmd, server_args=args)
MCPTool(server, i) == [name |-> server.tools[i], server |-> server.name]
ToolsOf(server) == [i \in 1..Len(server.tools) |-> MCPTool(server, i)]

\* Lines 95-120: self.tools after the session with a server.
ToolsAfter_DropOnFailure(tools, server, o) ==
    IF o = "answers" THEN tools \o ToolsOf(server) ELSE <<>>
ToolsAfter(tools, server, o) ==
    IF Responded(o) THEN tools \o ToolsOf(server) ELSE tools

McpInit ==
    /\ mconfig \in ConfigInputs
    /\ mpc = "new"
    /\ McpIdle
    /\ TaskAtRest
    /\ DiscoveryAtRest
    /\ ResolveAtRest
    /\ OrchestratorAtRest
    /\ GreetingAtRest
    /\ ConnectorAtRest
    /\ ToolAtRest
    /\ ExecutorAtRest
    /\ ClientAtRest
    /\ ServerAtRest

\* MCPConnector.__init__, lines 77-81, and the start of _fetch.
McpConstruct ==
    /\ mpc = "new"
    /\ mtools' = <<>>
    /\ midx' = 1
    /\ mpc' = "loading"
    /\ UNCHANGED <<mconfig, manswers>>
    /\ UNCHANGED otherThanMcp

\* One turn of the loop of _fetch: lines 90-120.  StdioServerParameters is
\* built outside the try and needs a command.  After the last server
\* asyncio.run returns and __init__ with it.
FetchServer ==
    /\ mpc = "loading"
    /\ IF midx > Len(mconfig)
       THEN /\ mpc' = "done"
            /\ UNCHANGED <<midx, mtools, manswers>>
       ELSE IF ~mconfig[midx].command
            THEN /\ mpc' = "raised"
                 /\ UNCHANGED <<midx, mtools, manswers>>
            ELSE \E o \in SessionOutcomes :
                    /\ mtools' = ToolsAfter(mtools, mconfig[midx], o)
                    /\ manswers' = Append(manswers, o)
                    /\ midx' = midx + 1
                    /\ mpc' = "loading"
    /\ UNCHANGED mconfig
    /\ UNCHANGED otherThanMcp

McpNext ==
    \/ McpConstruct
    \/ FetchServer

SpecMcp == McpInit /\ [][McpNext]_allVars

\* The tools of the servers among the first n that responded, in the order
\* of the configuration.
RECURSIVE DeclaredTools(_)
DeclaredTools(n) ==
    IF n = 0
    THEN <<>>
    ELSE IF Responded(manswers[n])
         THEN DeclaredTools(n - 1) \o ToolsOf(mconfig[n])
         ELSE DeclaredTools(n - 1)

AllHaveCommand == \A i \in 1..Len(mconfig) : mconfig[i].command

\* C30: when some of the configured tool servers fail during tool discovery,
\* the construction still completes, and the connector holds exactly the
\* tools of the servers that responded, in the order of the configuration: a
\* failing server adds no tool and removes none.
C30_FailingServersSkipped ==
    AllHaveCommand =>
        /\ mpc # "raised"
        /\ mpc \in {"loading", "done"} =>
            /\ Len(manswers) = midx - 1
            /\ mtools = DeclaredTools(Len(manswers))
        /\ mpc = "done" => Len(manswers) = Len(mconfig)

C30_Witness ==
    /\ mpc = "done"
    /\ Len(mconfig) = 2
    /\ mconfig[1].name = "fs"
    /\ mconfig[2].name = "web"
    /\ manswers = <<"answers", "fails">>
    /\ Len(mtools) = 2

\* ============================================================ MCPTool.run
\* utilities/mcp/mcp_connector.py, lines 47-62: one invocation of a tool.

\* The tools that are run, by self.name.
RunNames == {"read_file", "list_directory"}

\* How an awaited step of a run ends.
StepOutcomes == {"ok", "raises"}

\* What call_tool answered: a result with content, or an object without it.
ToolAnswers == {"with_content", "without_content"}

\* stdio_client(self._params): every entry starts a new server process with
\* its own pair of streams; n channels were opened before.
OpenChannel(n) == n + 1

\* Leaving the two "async with" blocks, by return or by exception: the
\* session is closed and the process of the channel is ended.
AfterExit_LeakOnFailure(open, ch, outcome) ==
    IF outcome = "ok" THEN open \ {ch} ELSE open
AfterExit(open, ch, outcome) == open \ {ch}

\* Line 62: getattr(resp, "content", str(resp)).
RunResult(answer) ==
    IF answer = "with_content" THEN "content" ELSE "str(resp)"

ToolInit ==
    /\ tpos = [r \in Runs |-> "idle"]
    /\ ToolIdle
    /\ TaskAtRest
    /\ DiscoveryAtRest
    /\ ResolveAtRest
    /\ OrchestratorAtRest
    /\ GreetingAtRest
    /\ ConnectorAtRest
    /\ McpAtRest
    /\ ExecutorAtRest
    /\ ClientAtRest
    /\ ServerAtRest

\* Line 58: "async with stdio_client(self._params)": the server process is
\* started, or the start raises (no such command) and nothing is open.
RunSpawn(r) ==
    /\ tpos[r] = "idle"
    /\ \E n \in RunNames : tname' = [tname EXCEPT ![r] = n]
    /\ \E o \in StepOutcomes :
        IF o = "ok"
        THEN /\ tchan' = [tchan EXCEPT ![r] = OpenChannel(tspawned)]
             /\ topen' = topen \cup {OpenChannel(tspawned)}
             /\ tspawned' = tspawned + 1
             /\ tpos' = [tpos EXCEPT ![r] = "spawned"]
        ELSE /\ tpos' = [tpos EXCEPT ![r] = "raised"]
             /\ UNCHANGED <<tchan, topen, tspawned>>
    /\ UNCHANGED <<tcalls, tresult>>
    /\ UNCHANGED otherThanTool

\* Lines 59-60: the ClientSession on the streams and "await sess.initialize()".
RunInitialize(r) ==
    /\ tpos[r] = "spawned"
    /\ \E o \in StepOutcomes :
        IF o = "ok"
        THEN /\ tpos' = [tpos EXCEPT ![r] = "initialized"]
             /\ topen' = topen
        ELSE /\ tpos' = [tpos EXCEPT ![r] = "raised"]
             /\ topen' = AfterExit(topen, tchan[r], o)
    /\ UNCHANGED <<tchan, tspawned, tcalls, tname, tresult>>
    /\ UNCHANGED otherThanTool

\* Line 61: "await sess.call_tool(self.name, args)" is sent on the channel.
RunCall(r) ==
    /\ tpos[r] = "initialized"
    /\ tcalls' = Append(tcalls, [run |-> r, chan |-> tchan[r], name |-> tname[r]])
    /\ tpos' = [tpos EXCEPT ![r] = "calling"]
    /\ UNCHANGED <<tchan, topen, tspawned, tname, tresult>>
    /\ UNCHANGED otherThanTool

\* Lines 61-62: call_tool answers and run returns, or call_tool raises; both
\* leave the "async with" blocks.
RunEnd(r) ==
    /\ tpos[r] = "calling"
    /\ \E o \in StepOutcomes, a \in ToolAnswers :
        /\ topen' = AfterExit(topen, tchan[r], o)
        /\ IF o = "ok"
           THEN /\ tpos' = [tpos EXCEPT ![r] = "returned"]
                /\ tresult' = [tresult EXCEPT ![r] = RunResult(a)]
           ELSE /\ tpos' = [tpos EXCEPT ![r] = "raised"]
                /\ tresult' = tresult
    /\ UNCHANGED <<tchan, tspawned, tcalls, tname>>
    /\ UNCHANGED otherThanTool

ToolNext ==
    \E r \in Runs :
        \/ RunSpawn(r)
        \/ RunInitialize(r)
        \/ RunCall(r)
        \/ RunEnd(r)

SpecTool == ToolInit /\ [][ToolNext]_allVars

\* ------------------------------------------------- properties of MCPTool.run

RunInProgress(r) == tpos[r] \in {"spawned", "initialized", "calling"}

CallsOf(r) == { i \in 1..Len(tcalls) : tcalls[i].run = r }

\* C31: each invocation of a tool is self-contained: run opens a channel of
\* its own, makes one call on it and closes it before it returns or raises.
\* The open channels are exactly those of the runs in progress, so none is
\* open once the runs have ended; no two runs have the same channel, and
\* every call went over the channel of its own run, one call per run.
C31_RunIsSelfContained ==
    /\ topen = { tchan[r] : r \in { q \in Runs : RunInProgress(q) } }
    /\ \A r \in Runs : tpos[r] \in {"returned", "raised"} => tchan[r] \notin topen
    /\ \A r, q \in Runs :
        (r # q /\ tchan[r] # NoChannel) => tchan[r] # tchan[q]
    /\ \A r \in Runs :
        /\ Cardinality(CallsOf(r)) <= 1
        /\ tpos[r] = "returned" => Cardinality(CallsOf(r)) = 1
    /\ \A i \in 1..Len(tcalls) :
        /\ tcalls[i].chan = tchan[tcalls[i].run]
        /\ tcalls[i].chan # NoChannel
        /\ \A j \in 1..Len(tcalls) : i # j => tcalls[i].chan # tcalls[j].chan

\* Two invocations that were under way at the same time, one returned and
\* one failed after its call: nothing is left open.
C31_Witness ==
    /\ tpos[1] = "returned"
    /\ tpos[2] = "raised"
    /\ Len(tcalls) = 2
    /\ tcalls[1].run = 2
    /\ tcalls[2].run = 1
    /\ topen = {}

\* ================================================= TellTimeAgentExecutor
\* a2a_level_5/agent/agent_executor.py: execute; a2a_level_5/agent/agent.py:
\* stream and _final_response.

\* The last message of an item of graph.stream: an AIMessage with tool
\* calls, a ToolMessage, or any other message.
ItemKinds == {"ai_tool_calls", "tool_message", "other"}
ItemLists == UNION { [1..n -> ItemKinds] : n \in 0..MaxItems }

\* state.values.get("structured_response"): a ResponseFormat with one of its
\* three statuses, or nothing of that type.
StructuredInputs == {"completed", "input_required", "error", "none"}

\* context.current_task: none, or the task of an earlier message.
CurrentTasks == {NoExecTask, [id |-> "t1", contextId |-> "c1"]}

\* new_task(context.message).
new_task == [id |-> "t-new", contextId |-> "c-new"]

NoYield == [is_task_complete |-> FALSE, require_user_input |-> FALSE, content |-> ""]

\* stream, lines 87-111: what is yielded for an item of the graph's stream.
StreamYield(kind) ==
    IF kind = "ai_tool_calls"
    THEN [is_task_complete |-> FALSE, require_user_input |-> FALSE,
          content |-> "Looking up the current time..."]
    ELSE IF kind = "tool_message"
         THEN [is_task_complete |-> FALSE, require_user_input |-> FALSE,
               content |-> "Processing the time result..."]
         ELSE NoYield

\* _final_response, lines 136-157.
FinalResponse_ErrorIsProgress(structured) ==
    IF structured = "completed"
    THEN [is_task_complete |-> TRUE, require_user_input |-> FALSE, content |-> "message"]
    ELSE IF structured = "input_required"
         THEN [is_task_complete |-> FALSE, require_user_input |-> TRUE, content |-> "message"]
         ELSE [is_task_complete |-> FALSE, require_user_input |-> FALSE, content |-> "message"]
FinalResponse(structured) ==
    IF structured = "completed"
    THEN [is_task_complete |-> TRUE, require_user_input |-> FALSE, content |-> "message"]
    ELSE IF structured \in {"input_required", "error"}
         THEN [is_task_complete |-> FALSE, require_user_input |-> TRUE, content |-> "message"]
         ELSE [is_task_complete |-> FALSE, require_user_input |-> TRUE,
               content |-> "Unable to process your request at the moment. Please try again."]

\* The events of the queue.
TaskEvent(t) ==
    [kind |-> "task", taskId |-> t.id, contextId |-> t.contextId,
     state |-> "submitted", final |-> FALSE, text |-> ""]
TaskArtifactUpdateEvent(t, text) ==
    [kind |-> "artifact-update", taskId |-> t.id, contextId |-> t.contextId,
     state |-> "", final |-> FALSE, text |-> text]
TaskStatusUpdateEvent(t, state, final, text) ==
    [kind |-> "status-update", taskId |-> t.id, contextId |-> t.contextId,
     state |-> state, final |-> final, text |-> text]

\* execute, lines 33-86: the events enqueued for one event of the stream.
Enqueued_StatusFirst(event, t) ==
    IF event.is_task_complete
    THEN << TaskStatusUpdateEvent(t, "completed", TRUE, ""),
            TaskArtifactUpdateEvent(t, event.content) >>
    ELSE IF event.require_user_input
         THEN << TaskStatusUpdateEvent(t, "input-required", TRUE, event.content) >>
         ELSE << TaskStatusUpdateEvent(t, "working", FALSE, event.content) >>
Enqueued(event, t) ==
    IF event.is_task_complete
    THEN << TaskArtifactUpdateEvent(t, event.content),
            TaskStatusUpdateEvent(t, "completed", TRUE, "") >>
    ELSE IF event.require_user_input
         THEN << TaskStatusUpdateEvent(t, "input-required", TRUE, event.content) >>
         ELSE << TaskStatusUpdateEvent(t, "working", FALSE, event.content) >>

ExecutorInit ==
    /\ epc = "new"
    /\ econtext \in [message : BOOLEAN, task : CurrentTasks]
    /\ eitems \in ItemLists
    /\ estructured \in StructuredInputs
    /\ ExecutorIdle
    /\ TaskAtRest
    /\ DiscoveryAtRest
    /\ ResolveAtRest
    /\ OrchestratorAtRest
    /\ GreetingAtRest
    /\ ConnectorAtRest
    /\ McpAtRest
    /\ ToolAtRest
    /\ ClientAtRest
    /\ ServerAtRest

\* execute, lines 22-32: the message is required, the task is the current
\* one or a new one, which is enqueued; the stream is opened.
ExecuteBegin ==
    /\ epc = "new"
    /\ IF ~econtext.message
       THEN /\ epc' = "raised"
            /\ UNCHANGED <<etask, equeue>>
       ELSE IF econtext.task = NoExecTask
            THEN /\ etask' = new_task
                 /\ equeue' = Append(equeue, TaskEvent(new_task))
                 /\ epc' = "streaming"
            ELSE /\ etask' = econtext.task
                 /\ equeue' = equeue
                 /\ epc' = "streaming"
    /\ UNCHANGED <<econtext, eitems, estructured, eidx>>
    /\ UNCHANGED otherThanExecutor

\* One item of the graph's stream: stream yields for it or goes on to the
\* next; execute enqueues the events of what was yielded.
ExecuteItem ==
    /\ epc = "streaming"
    /\ eidx < Len(eitems)
    /\ LET event == StreamYield(eitems[eidx + 1])
       IN  equeue' = IF event = NoYield
                     THEN equeue
                     ELSE equeue \o Enqueued(event, etask)
    /\ eidx' = eidx + 1
    /\ UNCHANGED <<epc, econtext, eitems, estructured, etask>>
    /\ UNCHANGED otherThanExecutor

\* The graph's stream has ended: stream yields _final_response(config) and
\* ends, execute enqueues its events and returns.
ExecuteFinal ==
    /\ epc = "streaming"
    /\ eidx = Len(eitems)
    /\ equeue' = equeue \o Enqueued(FinalResponse(estructured), etask)
    /\ epc' = "done"
    /\ UNCHANGED <<econtext, eitems, estructured, eidx, etask>>
    /\ UNCHANGED otherThanExecutor

\* The graph raises (the model or the tool fails): the exception leaves
\* stream and execute.
ExecuteRaise ==
    /\ epc = "streaming"
    /\ epc' = "raised"
    /\ UNCHANGED <<econtext, eitems, estructured, eidx, etask, equeue>>
    /\ UNCHANGED otherThanExecutor

ExecutorNext ==
    \/ ExecuteBegin
    \/ ExecuteItem
    \/ ExecuteFinal
    \/ ExecuteRaise

SpecExecutor == ExecutorInit /\ [][ExecutorNext]_allVars

\* ------------------------------------------------ properties of execute

IsStatus(e) == e.kind = "status-update"
IsArtifact(e) == e.kind = "artifact-update"
FinalUpdates == { i \in 1..Len(equeue) : IsStatus(equeue[i]) /\ equeue[i].final }

\* C36: a run of execute that consumed the stream to its end has enqueued
\* exactly one status update with final=True; it is the last event, its state
\* is completed or input-required, and every status update before it has
\* state working and final=False.
C36_OneFinalUpdateLast ==
    epc = "done" =>
        /\ FinalUpdates = {Len(equeue)}
        /\ equeue[Len(equeue)].state \in {"completed", "input-required"}
        /\ \A i \in 1..(Len(equeue) - 1) :
            IsStatus(equeue[i]) =>
                (equeue[i].state = "working" /\ ~equeue[i].final)

\* A run with two progress updates that ended asking for input, because the
\* graph reported an error.
C36_Witness ==
    /\ epc = "done"
    /\ estructured = "error"
    /\ Len(equeue) = 3
    /\ equeue[1].state = "working"
    /\ equeue[2].state = "working"
    /\ equeue[3].state = "input-required"
    /\ equeue[3].final

\* C37: a completed status update is enqueued only right after the artifact
\* event with the result of the same task, and an artifact event is always
\* followed by a completed status update; when the context had no current
\* task, the new Task is the first event, before any artifact or status event.
C37_ArtifactThenCompleted ==
    /\ \A i \in 1..Len(equeue) :
        /\ (IsStatus(equeue[i]) /\ equeue[i].state = "completed") =>
            /\ i > 1
            /\ IsArtifact(equeue[i - 1])
            /\ equeue[i - 1].taskId = equeue[i].taskId
        /\ IsArtifact(equeue[i]) =>
            /\ i < Len(equeue)
            /\ IsStatus(equeue[i + 1])
            /\ equeue[i + 1].state = "completed"
            /\ equeue[i + 1].taskId = equeue[i].taskId
    /\ (econtext.task = NoExecTask /\ Len(equeue) > 0) =>
        /\ equeue[1] = TaskEvent(new_task)
        /\ \A i \in 2..Len(equeue) :
            equeue[i].kind # "task" /\ equeue[i].taskId = new_task.id
    /\ econtext.task # NoExecTask =>
        \A i \in 1..Len(equeue) : equeue[i].kind # "task"

\* A run without a current task that completed after one progress update:
\* the new Task, the update, the artifact, the completed update.
C37_Witness ==
    /\ epc = "done"
    /\ econtext.task = NoExecTask
    /\ Len(equeue) = 4
    /\ equeue[1].kind = "task"
    /\ equeue[2].state = "working"
    /\ IsArtifact(equeue[3])
    /\ equeue[4].state = "completed"

\* =============================================================== client
\* a2a_level_5/client/client.py: build_message_payload, handle_streaming,
\* handle_non_streaming and interactive_loop.

TaskIds == {"t1", "t2"}
ContextIds == {"c1", "c2"}

\* The updates of a stream, by update.root: an error response, which has no
\* result, or a result that is a Task, an artifact update, a status update or
\* a Message, which has no status and whose contextId may be None.
Update(kind, taskId, contextId, state) ==
    [kind |-> kind, taskId |-> taskId, contextId |-> contextId, state |-> state]
Updates ==
    { Update("error", "", "", "") }
    \cup { Update("task", "t1", "c1", st) : st \in {"submitted", "input-required"} }
    \cup { Update("artifact-update", "t1", "c2", "") }
    \cup { Update("status-update", "t1", "c1", st) : st \in {"completed", "input-required"} }
    \cup { Update("status-update", "t2", "c2", "input-required") }
    \cup { Update("message", "", None, "") }
StreamInputs == UNION { [1..n -> Updates] : n \in 0..MaxUpdates }

\* The answers of send_message, by result.root: an error response, or a
\* success response whose result is a Task or a Message.
ReplyInputs ==
    { Update("error", "", "", ""), Update("message", "", "c1", "") }
    \cup { Update("task", t, c, st) :
            t \in TaskIds, c \in ContextIds, st \in {"completed", "input-required"} }

\* "if task_id", "if context_id": None and the empty string are false.
Truthy(x) == x \notin {None, ""}

\* build_message_payload, lines 25-34: the ids are in the message only when
\* they are given.
build_message_payload(text, task_id, context_id) ==
    [text |-> text,
     taskId |-> IF Truthy(task_id) THEN task_id ELSE Absent,
     contextId |-> IF Truthy(context_id) THEN context_id ELSE Absent]

\* Lines 71-77, one update of the stream: the locals after it, or the
\* AttributeError of result.taskId for a Task in state input-required.
Observe(l, u) ==
    IF u.kind = "error"
    THEN [raised |-> FALSE, latest |-> l]
    ELSE LET withContext == [l EXCEPT !.context_id = u.contextId]
         IN  IF u.kind \in {"task", "status-update"} /\ u.state = "input-required"
             THEN IF u.kind = "task"
                  THEN [raised |-> TRUE, latest |-> withContext]
                  ELSE [raised |-> FALSE,
                        latest |-> [withContext EXCEPT !.task_id = u.taskId,
                                                       !.input_required = TRUE]]
             ELSE [raised |-> FALSE, latest |-> withContext]

\* Line 78.
NeedsFollowUp(l) ==
    l.input_required /\ Truthy(l.task_id) /\ Truthy(l.context_id)

\* Lines 54-56, the answer to the query: handle_non_streaming returns for an
\* error response or a Task in another state, and goes on to the follow-up for
\* a Task in state input-required; a Message has no status, task.status
\* raises AttributeError.
AfterReply(r) ==
    IF r.kind = "message" THEN "raised"
    ELSE IF r.kind = "task" /\ r.state = "input-required" THEN "replied"
    ELSE "done"

ClientInit ==
    /\ supportsStreaming \in BOOLEAN
    /\ spc = "idle"
    /\ ClientIdle
    /\ TaskAtRest
    /\ DiscoveryAtRest
    /\ ResolveAtRest
    /\ OrchestratorAtRest
    /\ GreetingAtRest
    /\ ConnectorAtRest
    /\ McpAtRest
    /\ ToolAtRest
    /\ ExecutorAtRest
    /\ ServerAtRest

\* interactive_loop is at line 85, asking for a query: at its start, or after
\* the handling of the query before has returned.
AtPrompt ==
    spc \in {"idle", "done"}

\* Lines 65-69 for the given text and ids: the request is sent, the locals
\* are reset, the server answers with a stream.
SendStreaming(text, task_id, context_id) ==
    /\ snsent < MaxStreams
    /\ spayload' = build_message_payload(text, task_id, context_id)
    /\ snsent' = snsent + 1
    /\ latest' = NoLatest
    /\ sidx' = 0
    /\ \E st \in StreamInputs : sstream' = st
    /\ spc' = "streaming"
    /\ UNCHANGED <<supportsStreaming, sreply>>

\* interactive_loop, lines 85-90: handle_streaming(client, query).
HandleQuery ==
    /\ AtPrompt
    /\ supportsStreaming
    /\ SendStreaming("query", None, None)
    /\ UNCHANGED otherThanClient

\* Lines 69-77: the next update of the stream.
StreamUpdate ==
    /\ spc = "streaming"
    /\ sidx < Len(sstream)
    /\ LET o == Observe(latest, sstream[sidx + 1])
       IN  /\ latest' = o.latest
           /\ spc' = IF o.raised THEN "raised" ELSE "streaming"
    /\ sidx' = sidx + 1
    /\ UNCHANGED <<supportsStreaming, sreply, spayload, sstream, snsent>>
    /\ UNCHANGED otherThanClient

\* Lines 78-79: the stream has ended; the user is asked for a reply, or
\* handle_streaming returns, every enclosing call with it.
StreamEnd ==
    /\ spc = "streaming"
    /\ sidx = Len(sstream)
    /\ spc' = IF NeedsFollowUp(latest) THEN "asking" ELSE "done"
    /\ UNCHANGED <<supportsStreaming, sreply, spayload, sstream, sidx, latest, snsent>>
    /\ UNCHANGED otherThanClient

\* Line 80: handle_streaming(client, follow_up, latest_task_id,
\* latest_context_id).
FollowUp ==
    /\ spc = "asking"
    /\ SendStreaming("follow_up", latest.task_id, latest.context_id)
    /\ UNCHANGED otherThanClient

\* interactive_loop, lines 85-92, and handle_non_streaming, lines 51-52: the
\* query is sent by send_message with no ids; the function waits for the
\* answer.
HandleNonStreaming ==
    /\ AtPrompt
    /\ ~supportsStreaming
    /\ snsent < MaxStreams
    /\ spayload' = build_message_payload("query", None, None)
    /\ snsent' = snsent + 1
    /\ sreply' = NoUpdate
    /\ spc' = "awaiting"
    /\ UNCHANGED <<supportsStreaming, sstream, sidx, latest>>
    /\ UNCHANGED otherThanClient

\* Lines 52-56: the answer arrives and is looked at.
ReplyArrives ==
    /\ spc = "awaiting"
    /\ \E r \in ReplyInputs :
        /\ sreply' = r
        /\ spc' = AfterReply(r)
    /\ UNCHANGED <<supportsStreaming, spayload, sstream, sidx, latest, snsent>>
    /\ UNCHANGED otherThanClient

\* handle_non_streaming, lines 57-61: the follow-up carries task.id and
\* task.contextId; the function waits for its answer.
FollowUpNonStreaming ==
    /\ spc = "replied"
    /\ snsent < MaxStreams
    /\ spayload' = build_message_payload("follow_up", sreply.taskId, sreply.contextId)
    /\ snsent' = snsent + 1
    /\ spc' = "awaiting_follow_up"
    /\ UNCHANGED <<supportsStreaming, sreply, sstream, sidx, latest>>
    /\ UNCHANGED otherThanClient

\* Lines 61-62: the answer to the follow-up arrives and is printed, whatever
\* it is; handle_non_streaming returns.
FollowUpAnswered ==
    /\ spc = "awaiting_follow_up"
    /\ spc' = "done"
    /\ UNCHANGED <<supportsStreaming, sreply, spayload, sstream, sidx, latest, snsent>>
    /\ UNCHANGED otherThanClient

\* Lines 52, 61 and 69: the transport raises while the client waits for an
\* answer or for the next update; nothing in the handlers or in
\* interactive_loop catches it.
TransportError ==
    /\ spc \in {"awaiting", "awaiting_follow_up", "streaming"}
    /\ spc' = "raised"
    /\ UNCHANGED <<supportsStreaming, sreply, spayload, sstream, sidx, latest, snsent>>
    /\ UNCHANGED otherThanClient

\* interactive_loop, lines 86-88: the query is "exit" or "quit".
Exit ==
    /\ AtPrompt
    /\ spc' = "exited"
    /\ UNCHANGED <<supportsStreaming, sreply, spayload, sstream, sidx, latest, snsent>>
    /\ UNCHANGED otherThanClient

ClientNext ==
    \/ HandleQuery
    \/ StreamUpdate
    \/ StreamEnd
    \/ FollowUp
    \/ HandleNonStreaming
    \/ ReplyArrives
    \/ FollowUpNonStreaming
    \/ FollowUpAnswered
    \/ TransportError
    \/ Exit

SpecClient == ClientInit /\ [][ClientNext]_allVars

\* ---------------------------------------- properties of the streaming client

IsInputRequired(u) == u.kind = "status-update" /\ u.state = "input-required"

\* The positions in the stream in hand of the status updates in state
\* input-required, and of the updates with a result.
InputRequiredAt == { i \in 1..Len(sstream) : IsInputRequired(sstream[i]) }
ResultAt == { i \in 1..Len(sstream) : sstream[i].kind # "error" }

Latest(S) == CHOOSE i \in S : \A j \in S : j <= i

\* C38: the client sends a follow-up exactly when the stream it has consumed
\* held a status update in state input-required; the follow-up carries the
\* taskId of the last such update and the last contextId of the stream; the
\* client is done as soon as a stream holds no such update.
C38_FollowUpIffInputRequired ==
    [][/\ spc' = "asking" => InputRequiredAt # {}
       /\ (spc = "streaming" /\ spc' = "done") => InputRequiredAt = {}
       /\ (AtPrompt /\ spc' = "streaming") =>
            /\ spayload'.taskId = Absent
            /\ spayload'.contextId = Absent
            /\ snsent' = snsent + 1
       /\ (spc = "asking" /\ spc' = "streaming") =>
            /\ spayload'.taskId = sstream[Latest(InputRequiredAt)].taskId
            /\ spayload'.contextId = sstream[Latest(ResultAt)].contextId
            /\ snsent' = snsent + 1
       /\ (supportsStreaming /\ snsent' # snsent) => (spc = "asking" \/ AtPrompt)]_allVars

\* ======================================================== level-1 server
\* a2a_level_1/a2a_server/time_server.py: handle_task.

\* The JSON values a request can carry where the server looks.  parts[0]:
\* null, a string, an object without "text", an object with it.
ElemValues ==
    { [type |-> t, text |-> ""] : t \in {"null", "str", "obj"} }
    \cup { [type |-> "obj", text |-> "What time is it?"] }

\* message["parts"]: no such key, null, an empty or a non-empty string, an
\* object, an empty list, a list with a first element.
PartsValues ==
    { [type |-> t, first |-> NoElem] : t \in {"absent", "null", "empty_str", "str", "obj", "empty_list"} }
    \cup { [type |-> "list", first |-> e] : e \in ElemValues }

\* task["message"]: no such key, null, a string, a list, an object.
MessageValues ==
    { [type |-> t, role |-> "", parts |-> NoPartsValue] : t \in {"absent", "null", "str", "list"} }
    \cup { [type |-> "obj", role |-> "user", parts |-> p] : p \in PartsValues }

\* The request bodies: text that is no JSON, JSON sent under another content
\* type, a JSON value that is no object, an object with or without an id.
BodyInputs ==
    { [json |-> j, id |-> Absent, message |-> NoMessageValue] :
        j \in {"unparsable", "wrong_content_type", "null", "list", "str", "num"} }
    \cup { [json |-> "obj", id |-> i, message |-> m] :
            i \in {Absent, "id1"}, m \in MessageValues }

\* datetime.now() at the time of the request.
Clock == {"2024-01-15 10:00:00", "2024-01-15 10:00:01"}

\* Lines 23-25: the exception that the try block raises, "none" when it
\* gets to the text.  get_json raises werkzeug's BadRequest for a body that
\* does not parse and UnsupportedMediaType for another content type; .get is
\* no attribute of a value that is not a dict.
TryBlock(b) ==
    IF b.json = "unparsable" THEN "BadRequest"
    ELSE IF b.json = "wrong_content_type" THEN "UnsupportedMediaType"
    ELSE IF b.json # "obj" THEN "AttributeError"
    ELSE IF b.message.type = "absent" THEN "KeyError"
    ELSE IF b.message.type # "obj" THEN "TypeError"
    ELSE LET p == b.message.parts
         IN  IF p.type = "absent" THEN "KeyError"
             ELSE IF p.type = "null" THEN "TypeError"
             ELSE IF p.type \in {"empty_str", "empty_list"} THEN "IndexError"
             ELSE IF p.type = "obj" THEN "KeyError"
             ELSE IF p.type = "str" THEN "TypeError"
             ELSE IF p.first.type # "obj" THEN "TypeError"
             ELSE IF p.first.text = "" THEN "KeyError"
             ELSE "none"

\* The response of the framework to an exception that leaves the view.
FrameworkError(e) ==
    [http |-> IF e = "BadRequest" THEN 400
              ELSE IF e = "UnsupportedMediaType" THEN 415 ELSE 500,
     error |-> e, task_id |-> Absent, state |-> "", messages |-> <<>>]

InvalidTaskFormat ==
    [http |-> 400, error |-> "Invalid task format", task_id |-> Absent,
     state |-> "", messages |-> <<>>]

TimeReply(now) == [type |-> "reply", role |-> "agent", now |-> now]

\* handle_task, lines 21-42.
handle_task(b, now) ==
    LET e == TryBlock(b)
    IN  IF e \in {"KeyError", "TypeError", "IndexError"}
        THEN InvalidTaskFormat
        ELSE IF e # "none"
             THEN FrameworkError(e)
             ELSE [http |-> 200, error |-> "", task_id |-> b.id,
                   state |-> "completed",
                   messages |-> << b.message, TimeReply(now) >>]

ServerInit ==
    /\ lpc = "idle"
    /\ ServerIdle
    /\ TaskAtRest
    /\ DiscoveryAtRest
    /\ ResolveAtRest
    /\ OrchestratorAtRest
    /\ GreetingAtRest
    /\ ConnectorAtRest
    /\ McpAtRest
    /\ ToolAtRest
    /\ ExecutorAtRest
    /\ ClientAtRest

\* A POST to /tasks/send arrives.
PostTask ==
    /\ lpc \in {"idle", "responded"}
    /\ lserved < MaxPosts
    /\ \E b \in BodyInputs : lbody' = b
    /\ lpc' = "handling"
    /\ UNCHANGED <<lresp, lserved>>
    /\ UNCHANGED otherThanServer

\* handle_task answers it.
HandleTask ==
    /\ lpc = "handling"
    /\ \E now \in Clock : lresp' = handle_task(lbody, now)
    /\ lserved' = lserved + 1
    /\ lpc' = "responded"
    /\ UNCHANGED lbody
    /\ UNCHANGED otherThanServer

ServerNext ==
    \/ PostTask
    \/ HandleTask

SpecServer == ServerInit /\ [][ServerNext]_allVars

\* ------------------------------------------- properties of the level-1 server

\* The body has message.parts[0].text.
HasText(b) ==
    /\ b.json = "obj"
    /\ b.message.type = "obj"
    /\ b.message.parts.type = "list"
    /\ b.message.parts.first.type = "obj"
    /\ b.message.parts.first.text # ""

\* C39: a body without message.parts[0].text, also one that is no JSON
\* object, is answered with HTTP 400 and the error "Invalid task format";
\* every other body with its id as task_id, the status completed and two
\* messages, the caller's and then one reply of the agent, whatever was
\* asked before.
C39_InvalidOrCompleted ==
    lpc = "responded" =>
        IF HasText(lbody)
        THEN /\ lresp.http = 200
             /\ lresp.task_id = lbody.id
             /\ lresp.state = "completed"
             /\ Len(lresp.messages) = 2
             /\ lresp.messages[1] = lbody.message
             /\ lresp.messages[2].role = "agent"
        ELSE lresp = InvalidTaskFormat

====
